---- MODULE Spec2Model ----
(***************************************************************************)
(* Model of research-mcp: the in-memory job store of the MCP server, the   *)
(* background thread that executes one job, the lead-researcher           *)
(* coordinator with its research_specialist fan-out, and the legacy       *)
(* coordinator of main.py with its decomposition validation.             *)
(***************************************************************************)
EXTENDS Integers, Sequences, FiniteSets, TLC

(***************************************************************************)
(* Bounds of the model.                                                    *)
(***************************************************************************)
MaxJobs == 2
MaxQueries == 1
FanQueries == 3
FanRounds == 2
PoolQueries == 6

(***************************************************************************)
(* Program constants.                                                      *)
(***************************************************************************)
SuccessDelay == 3600
FailureDelay == 600
SweepAge == 86400
NumSubagents == 5

JobIds == 1..MaxJobs
Urls == {"u1", "u2"}

\* Python's None and a present value, as sequences of length 0 and 1.
None == <<>>
Some(x) == <<x>>

\* JobStatus
PENDING == "pending"
IN_PROGRESS == "in_progress"
COMPLETED == "completed"
FAILED == "failed"

VARIABLES
    now,        \* datetime.now(), in seconds
    jobs,       \* _research_jobs: job id -> job record
    issued,     \* job ids handed out so far (uuid4 never repeats one)
    timers,     \* started threading.Timer objects: [job, due]
    pc,         \* position of each job's background thread
    exc,        \* what conduct_research raised in that thread, if it raised
    leadCalls,  \* invocations of lead_researcher(prompt) per job
    rounds,     \* research_specialist tool calls made by the lead so far
    queries,    \* the query list of the running fan-out (its length)
    results,    \* return values of the leaf tasks finished so far
    fetched,    \* URLs each leaf of the running fan-out fetched successfully
    tracked,    \* agent_manager.tracked_urls
    lastSources,\* agent_manager.last_research_sources
    handed,     \* what the tool call returned to the lead researcher
    threadTopic,\* the topic argument of each background thread
    main,       \* the run of main.py's ResearchOrchestrator.conduct_research
    reply,      \* what get_research_report returned to its last caller
    cite,       \* a text and what deduplicate_citation_urls returned for it
    norm,       \* a string and what normalize_url returned for it
    tracker,    \* a SourceTracker and what its last query returned
    listing,    \* a list_research_jobs call, statement by statement
    fetch,      \* a fetch_web_content call and the tracked set it adds to
    search,     \* the web_search call of each caller
    cache       \* the cache directory: result files and cache_metadata.json

jobVars == <<now, jobs, issued, timers, pc, exc>>
coordVars == <<leadCalls, rounds, queries, results, fetched, tracked,
               lastSources, handed, threadTopic>>
serverVars == <<now, jobs, issued, timers, pc, exc, leadCalls, rounds,
                queries, results, fetched, tracked, lastSources, handed,
                threadTopic>>
\* The state of everything that is not the server.
\* The state of the calls that are modelled statement by statement.
ioVars == <<listing, fetch, search, cache>>
libVars == <<main, reply, cite, norm, tracker, listing, fetch, search, cache>>
vars == <<now, jobs, issued, timers, pc, exc, leadCalls, rounds, queries,
          results, fetched, tracked, lastSources, handed, threadTopic, main,
          reply, cite, norm, tracker, listing, fetch, search, cache>>

(***************************************************************************)
(* The job store (src/mcp_server/server.py).                               *)
(***************************************************************************)
NoProgress ==
    [subtopics_total |-> 0, subtopics_completed |-> 0,
     current_subtopic |-> None, estimated_remaining |-> None]

\* create_job: the record a new job starts with.
NewJob(id, topic, t) ==
    [id |-> id, topic |-> topic, status |-> PENDING, created_at |-> t,
     started_at |-> None, completed_at |-> None, result |-> None,
     error |-> None, progress |-> NoProgress]

\* dict item assignment d[k] = v, which adds the key when it is missing.
Put(d, k, v) == [x \in (DOMAIN d) \cup {k} |-> IF x = k THEN v ELSE d[x]]

\* del d[k]
Del(d, k) == [x \in (DOMAIN d) \ {k} |-> d[x]]

\* An update_job_status that writes _research_jobs[job_id] = {...} without
\* looking the record up first, which adds the key when it is missing.
UpdateJobStatusCreates(js, j, status, kw, t) ==
    LET j0 == IF j \in DOMAIN js THEN js[j] ELSE NewJob(j, "", t)
        j1 == Put(j0, "status", status)
        j2 == IF status \in {COMPLETED, FAILED}
              THEN Put(j1, "completed_at", Some(t))
              ELSE j1
        j3 == [x \in (DOMAIN j2) \cup (DOMAIN kw) |->
                   IF x \in DOMAIN kw THEN kw[x] ELSE j2[x]]
    IN  Put(js, j, j3)

\* update_job_status(job_id, status, **kwargs); kw is the kwargs dict.
UpdateJobStatus(js, j, status, kw, t) ==
    IF j \notin DOMAIN js THEN js
    ELSE LET j1 == Put(js[j], "status", status)
             j2 == IF status = IN_PROGRESS /\ "started_at" \notin DOMAIN j1
                   THEN Put(j1, "started_at", Some(t))
                   ELSE IF status \in {COMPLETED, FAILED}
                        THEN Put(j1, "completed_at", Some(t))
                        ELSE j1
             j3 == [x \in (DOMAIN j2) \cup (DOMAIN kw) |->
                        IF x \in DOMAIN kw THEN kw[x] ELSE j2[x]]
         IN  [js EXCEPT ![j] = j3]

\* The ETA of update_job_progress: int(elapsed / completed * remaining).
Eta(started, t, total, completed) ==
    ((t - started) * (total - completed)) \div completed

\* update_job_progress(job_id, subtopics_total, subtopics_completed, current)
UpdateJobProgress(js, j, total, completed, current, t) ==
    IF j \notin DOMAIN js THEN js
    ELSE LET p0 == js[j].progress
             p1 == [p0 EXCEPT !.subtopics_total = total,
                              !.subtopics_completed = completed,
                              !.current_subtopic =
                                  IF current # None THEN current ELSE @]
             p2 == IF total > 0 /\ completed > 0 /\ js[j].started_at # None
                   THEN [p1 EXCEPT !.estimated_remaining =
                            Some(Eta(js[j].started_at[1], t, total, completed))]
                   ELSE p1
         IN  [js EXCEPT ![j].progress = p2]

\* progress_callback raises KeyError when it reads _research_jobs[job_id]
\* of a job that is no longer in the store.
CallbackRaises(js, j, event) ==
    event \in {"subtopic_completed", "research_completed"} /\ j \notin DOMAIN js

\* A progress_callback whose research_started keeps the completed count.
ProgressCallbackKeepsCount(js, j, event, arg, t) ==
    CASE event = "research_started" ->
            UpdateJobProgress(js, j, arg, js[j].progress.subtopics_completed,
                              Some("starting"), t)
      [] event = "subtopic_completed" ->
            UpdateJobProgress(js, j, js[j].progress.subtopics_total, arg,
                              Some("completed"), t)
      [] event = "research_completed" ->
            UpdateJobProgress(js, j, js[j].progress.subtopics_total,
                              js[j].progress.subtopics_total,
                              Some("synthesizing"), t)
      [] OTHER -> js

\* A progress_callback that counts the subtopic_completed events it receives
\* in place of storing completed_count.
ProgressCallbackCountsEvents(js, j, event, arg, t) ==
    CASE event = "research_started" ->
            UpdateJobProgress(js, j, arg, 0, Some("starting"), t)
      [] event = "subtopic_completed" ->
            UpdateJobProgress(js, j, js[j].progress.subtopics_total,
                              js[j].progress.subtopics_completed + 1,
                              Some("completed"), t)
      [] event = "research_completed" ->
            UpdateJobProgress(js, j, js[j].progress.subtopics_total,
                              js[j].progress.subtopics_total,
                              Some("synthesizing"), t)
      [] OTHER -> js

\* progress_callback(event_type, **kwargs) of job j, when it does not raise.
ProgressCallback(js, j, event, arg, t) ==
    CASE event = "research_started" ->
            UpdateJobProgress(js, j, arg, 0, Some("starting"), t)
      [] event = "subtopic_completed" ->
            UpdateJobProgress(js, j, js[j].progress.subtopics_total, arg,
                              Some("completed"), t)
      [] event = "research_completed" ->
            UpdateJobProgress(js, j, js[j].progress.subtopics_total,
                              js[j].progress.subtopics_total,
                              Some("synthesizing"), t)
      [] OTHER -> js

\* cleanup_job_sync(job_id)
CleanupJobSync(js, j) == IF j \in DOMAIN js THEN Del(js, j) ELSE js

\* cleanup_old_jobs(): the jobs it removes, and the store it leaves.
JobsToRemove(js, t) == {j \in DOMAIN js : js[j].created_at < t - SweepAge}
CleanupOldJobs(js, t) == [x \in (DOMAIN js) \ JobsToRemove(js, t) |-> js[x]]

(***************************************************************************)
(* Exceptions, as the strings str(e) that end up in a job's error field.   *)
(***************************************************************************)
\* RuntimeError(f"Research workflow failed for topic '{main_topic}': {e}")
WorkflowError(topic, cause) ==
    [kind |-> "workflow_failed", topic |-> topic, cause |-> cause]
\* Any other exception that reaches the handler of execute_research_job_sync.
OtherError(what) == [kind |-> what, topic |-> "", cause |-> ""]

(***************************************************************************)
(* The fetch tool of a leaf (src/research_orchestrator/tools.py).          *)
(***************************************************************************)
BlockedUrls == {"r.jina.ai/u3"}
AllUrls == Urls \cup BlockedUrls

\* is_url_blocked(url)
IsUrlBlocked(u) == u \in BlockedUrls

\* fetch_web_content(urls): the URLs it adds to tracked_urls, given the set
\* ok of URLs whose fetch succeeds.
FetchTracked(urls, ok) == {u \in urls : ~IsUrlBlocked(u) /\ u \in ok}

(***************************************************************************)
(* The coordinator (orchestrator.py, agents/agent_manager.py).             *)
(***************************************************************************)
\* The return value of research_single_async for query q: its report, or
\* the text "Research failed for ..."; urls are the URLs the leaf fetched.
\* A subagent that is always the first of the pool.
GetSubagentFirst(agent_id) == 0

\* get_subagent(agent_id): the index of the subagent in the pool.
GetSubagent(agent_id) == agent_id % NumSubagents

\* It ran on the subagent of its query_index, q - 1.
LeafResult(q, ok, urls) ==
    [q |-> q, ok |-> ok, fetched |-> urls, worker |-> GetSubagent(q - 1)]

\* reports_text of the consolidation prompt: the reports of processed_results
\* in list order, each named here by the query it answers.
SynthesisInput(rs) == [i \in 1..Len(rs) |-> rs[i].q]

\* streaming_research_specialist returns results[0] if results else a
\* fixed text; rs is what _conduct_concurrent_research_with_agents returned,
\* each element the set of queries whose report it carries.
ToolReturn(rs) == IF rs # <<>> THEN rs[1] ELSE {}

\* _conduct_concurrent_research_with_agents, from the gathered results on:
\* one consolidated report when the synthesis agent answers, the original
\* reports when there is one report or the consolidation fails.
FanInReturn(n, consolidated) ==
    IF n > 1 /\ consolidated
    THEN << 1..n >>
    ELSE [i \in 1..n |-> {i}]

\* complete_research_workflow builds the ResearchResults from the lead's
\* text, which cites the URLs in cited, and last_research_sources.
BuildResults(topic, cited, sources) ==
    [main_topic |-> topic,
     master_synthesis |-> [cited |-> cited, additional |-> sources \ cited],
     total_unique_sources |-> Cardinality(sources),
     all_sources_used |-> sources]

(***************************************************************************)
(* The legacy coordinator (main.py): generate_subtopics, research_subtopic *)
(* and conduct_research.                                                   *)
(***************************************************************************)
\* The longest array literal of a modelled response, next to the one array
\* of six items.
MainMaxItems == 3

\* An item of an array literal in the lead's answer: a string literal with
\* its text, or a literal of another JSON type.
Str(v) == [str |-> TRUE, val |-> v]
Num(v) == [str |-> FALSE, val |-> v]
Elems == {Str(""), Str("a"), Num("7")}

\* The item lists of the modelled array literals.
SixItems == [i \in 1..6 |-> Str("a")]
ItemLists == UNION {[1..n -> Elems] : n \in 0..MainMaxItems} \cup {SixItems}

\* An array literal as written: its items, and whether its commas are those
\* of JSON, or one trails the last item, or one is missing between items.
Syntaxes == {"ok", "trailing_comma", "missing_comma"}
ArrayLits == [items : ItemLists, syntax : Syntaxes]

\* json_pattern = r'\[(?:\s*"[^"]*"\s*,?\s*)+\]' matches an array literal of
\* one or more string literals, each followed by an optional comma.
RegexMatches(a) ==
    /\ Len(a.items) >= 1
    /\ \A i \in 1..Len(a.items) : a.items[i].str

\* json.loads(json_string) raises JSONDecodeError unless the commas are JSON's.
JsonLoads(a) == IF a.syntax = "ok" THEN Some(a.items) ELSE None

\* A response text is the sequence of the array literals in it; the prose
\* around them plays no part.
Responses ==
    {<<>>} \cup {<<a>> : a \in ArrayLits}
           \cup {<<b, a>> : b \in {x \in ArrayLits : x.syntax = "ok" /\ x.items = <<Str("a"), Str("a")>>},
                            a \in {x \in ArrayLits : RegexMatches(x)}}

\* raise ValueError(... f"Full response: {response_text}")
Rejected(kind, response) ==
    [ok |-> FALSE, subtopics |-> <<>>,
     error |-> Some([kind |-> kind, response |-> Some(response)])]
Accepted(list) == [ok |-> TRUE, subtopics |-> list, error |-> None]

\* generate_subtopics, from the response text on.
GenerateSubtopics(response) ==
    LET json_matches == SelectSeq(response, RegexMatches) IN
    IF json_matches = <<>> THEN Rejected("no_json_array", response)
    ELSE LET json_string == json_matches[Len(json_matches)]
             loaded == JsonLoads(json_string)
         IN  IF loaded = None THEN Rejected("json_decode", response)
             ELSE LET subtopics == loaded[1] IN
                  IF ~(2 <= Len(subtopics) /\ Len(subtopics) <= 5)
                  THEN Rejected("wrong_count", response)
                  ELSE IF ~(\A i \in 1..Len(subtopics) : subtopics[i].str)
                       THEN Rejected("non_string", response)
                       ELSE Accepted([i \in 1..Len(subtopics) |-> subtopics[i].val])

\* A research_subtopic coroutine: created, past its search, or returned.
NewTask == [phase |-> "new", searchOk |-> FALSE, agentOk |-> FALSE]

\* No run of main.py, and a run about to call generate_subtopics.
MainIdle ==
    [pc |-> "idle", response |-> <<>>, subtopics |-> <<>>, error |-> None,
     tasks |-> <<>>, searches |-> 0, agentCalls |-> 0, synthesis |-> None]
MainStart(response) == [MainIdle EXCEPT !.pc = "start", !.response = response]

\* conduct_research, step 1: generate_subtopics returns the subtopics and
\* the research tasks are created and gathered, or it raises.
MainGenerate ==
    /\ main.pc = "start"
    /\ LET g == GenerateSubtopics(main.response) IN
       main' = IF g.ok
               THEN [main EXCEPT !.pc = "research", !.subtopics = g.subtopics,
                                 !.tasks = [i \in 1..Len(g.subtopics) |-> NewTask]]
               ELSE [main EXCEPT !.pc = "failed", !.error = g.error]
    /\ UNCHANGED serverVars
    /\ UNCHANGED <<reply, cite, norm, tracker, ioVars>>

\* self.lead_researcher(prompt) raises inside generate_subtopics.
MainLeadRaises ==
    /\ main.pc = "start"
    /\ main' = [main EXCEPT !.pc = "failed",
                            !.error = Some([kind |-> "agent_error", response |-> None])]
    /\ UNCHANGED serverVars
    /\ UNCHANGED <<reply, cite, norm, tracker, ioVars>>

\* research_subtopic of task i: await web_search(subtopic, count=5) returns
\* or raises; a raise is kept as search_results["error"].
MainSearch(i, ok) ==
    /\ main.pc = "research"
    /\ i \in 1..Len(main.tasks)
    /\ main.tasks[i].phase = "new"
    /\ main' = [main EXCEPT !.tasks[i] = [phase |-> "searched", searchOk |-> ok,
                                          agentOk |-> FALSE],
                            !.searches = @ + 1]
    /\ UNCHANGED serverVars
    /\ UNCHANGED <<reply, cite, norm, tracker, ioVars>>

\* research_subtopic of task i: agent(prompt) returns or raises; a raise is
\* kept as the text "Error generating research summary: ...".
MainAgent(i, ok) ==
    /\ main.pc = "research"
    /\ i \in 1..Len(main.tasks)
    /\ main.tasks[i].phase = "searched"
    /\ main' = [main EXCEPT !.tasks[i].phase = "done", !.tasks[i].agentOk = ok,
                            !.agentCalls = @ + 1]
    /\ UNCHANGED serverVars
    /\ UNCHANGED <<reply, cite, norm, tracker, ioVars>>

\* conduct_research, steps 3 and 4, once gather has every task's result:
\* create_master_synthesis returns the report, or the text of its error.
MainSynthesize(ok) ==
    /\ main.pc = "research"
    /\ \A i \in 1..Len(main.tasks) : main.tasks[i].phase = "done"
    /\ main' = [main EXCEPT !.pc = "done",
                            !.synthesis = Some(IF ok THEN "report"
                                                     ELSE "error_text")]
    /\ UNCHANGED serverVars
    /\ UNCHANGED <<reply, cite, norm, tracker, ioVars>>

(***************************************************************************)
(* The citation processor (processing/citation_processor.py).              *)
(***************************************************************************)
\* The most lines of a modelled sources section, references of a modelled
\* body, and the largest citation number written in a modelled text.
MaxLines == 3
MaxRefs == 2
MaxLabel == 3

\* The most characters written between a modelled path and its query, and
\* the most backslashes in a row in a modelled title.
MaxTail == 2
MaxSlashes == 2

\* A string given as a URL. host is the host in lower case: "" when the
\* string has no scheme and no host, "[" for a host that urlparse rejects
\* (an unclosed bracket). path is the text of the path in lower case, and
\* tail the characters written after it, each "/", ";" or " ". schemeUpper,
\* hostUpper and pathUpper say whether the scheme, the host and the path are
\* written with upper-case letters; query and fragment whether a ?query and
\* a #fragment follow.
Url(host, path, schemeUpper, hostUpper, pathUpper, tail, query, fragment) ==
    [host |-> host, path |-> path, schemeUpper |-> schemeUpper,
     hostUpper |-> hostUpper, pathUpper |-> pathUpper, tail |-> tail,
     query |-> query, fragment |-> fragment]

\* s.rstrip(c), for a sequence of characters.
RECURSIVE RStrip(_, _)
RStrip(s, c) ==
    IF s # <<>> /\ s[Len(s)] = c THEN RStrip(SubSeq(s, 1, Len(s) - 1), c) ELSE s

\* url.strip(): white space at the end of the string is at the end of the
\* tail when neither query nor fragment follows it.
Strip(u) ==
    IF u.query \/ u.fragment THEN u ELSE [u EXCEPT !.tail = RStrip(@, " ")]

\* urlparse(url).path, as the characters kept of the tail: the parameters
\* of the last segment, from its first ";" on, are split off.
ParsedPathTail(tail) ==
    LET lastSlash == IF \E i \in 1..Len(tail) : tail[i] = "/"
                     THEN CHOOSE i \in 1..Len(tail) :
                              /\ tail[i] = "/"
                              /\ \A k \in (i + 1)..Len(tail) : tail[k] # "/"
                     ELSE 0
        semis == {i \in (lastSlash + 1)..Len(tail) : tail[i] = ";"}
    IN  IF semis = {} THEN tail
        ELSE SubSeq(tail, 1, (CHOOSE i \in semis : \A k \in semis : i <= k) - 1)

\* normalize_url(url): the stripped string is parsed; scheme, host and path
\* are put in lower case, the path loses its trailing slashes, and
\* parameters, query and fragment are dropped. When urlparse raises, the
\* result is the stripped string in lower case.
NormalizeUrl(url) ==
    LET u == Strip(url) IN
    IF u.host = "["
    THEN [u EXCEPT !.schemeUpper = FALSE, !.hostUpper = FALSE,
                   !.pathUpper = FALSE]
    ELSE [u EXCEPT !.schemeUpper = FALSE, !.hostUpper = FALSE,
                   !.pathUpper = FALSE,
                   !.tail = RStrip(ParsedPathTail(@), "/"),
                   !.query = FALSE, !.fragment = FALSE]

\* The URLs of the modelled texts: one page, another spelling of it, and a
\* page of another host.
CiteUrls ==
    {Url("a", "/p", FALSE, FALSE, FALSE, <<>>, FALSE, FALSE),
     Url("a", "/p", FALSE, TRUE, FALSE, <<"/">>, TRUE, FALSE),
     Url("b", "/p", FALSE, FALSE, FALSE, <<>>, FALSE, FALSE)}

\* The strings given to normalize_url: with and without scheme and host,
\* with a host that urlparse rejects, and the empty string. A string with a
\* host has a path, and white space is written after a path only.
Tails == UNION {[1..n -> {"/", ";", " "}] : n \in 0..MaxTail}
UrlStrings ==
    {u \in {Url(h, p, su, hu, pu, t, q, f) :
                h \in {"", "a", "["}, p \in {"", "/p", "/q"},
                su \in BOOLEAN, hu \in BOOLEAN, pu \in BOOLEAN,
                t \in Tails, q \in BOOLEAN, f \in BOOLEAN} :
        /\ u.host = "" => ~u.schemeUpper /\ ~u.hostUpper
        /\ u.path = "" => /\ ~u.pathUpper
                          /\ u.host = ""
                          /\ \A i \in 1..Len(u.tail) : u.tail[i] # " "}
EmptyString == Url("", "", FALSE, FALSE, FALSE, <<>>, FALSE, FALSE)

\* The strings that differ from u in one respect: a trailing slash more or
\* less, the case of the scheme, of the host or of the path, a query, a
\* fragment, or the path.
WithSlash(u) ==
    IF u.tail # <<>> /\ u.tail[Len(u.tail)] = "/"
    THEN [u EXCEPT !.tail = SubSeq(@, 1, Len(@) - 1)]
    ELSE [u EXCEPT !.tail = Append(@, "/")]
OtherPath(u) == [u EXCEPT !.path = IF @ = "/p" THEN "/q" ELSE "/p"]
Variants(u) ==
    {v \in {WithSlash(u), OtherPath(u),
            [u EXCEPT !.schemeUpper = ~@], [u EXCEPT !.hostUpper = ~@],
            [u EXCEPT !.pathUpper = ~@], [u EXCEPT !.query = ~@],
            [u EXCEPT !.fragment = ~@]} :
        /\ v.host = "" => ~v.schemeUpper /\ ~v.hostUpper
        /\ v.path = "" => ~v.pathUpper}

\* No string at hand.
NoNorm == [url |-> EmptyString, out |-> None, again |-> None, other |-> None]

\* normalize_url(url) returns.
NormalizeOnce ==
    /\ norm.out = None
    /\ norm' = [norm EXCEPT !.out = Some(NormalizeUrl(norm.url))]
    /\ UNCHANGED <<serverVars, main, reply, cite, tracker, ioVars>>

\* normalize_url(normalize_url(url)) returns.
NormalizeTwice ==
    /\ norm.out # None
    /\ norm.again = None
    /\ norm' = [norm EXCEPT !.again = Some(NormalizeUrl(norm.out[1]))]
    /\ UNCHANGED <<serverVars, main, reply, cite, tracker, ioVars>>

\* normalize_url(v) returns, for a second string v.
NormalizeOther(v) ==
    /\ norm.out # None
    /\ norm.other = None
    /\ norm' = [norm EXCEPT !.other = Some([url |-> v, out |-> NormalizeUrl(v)])]
    /\ UNCHANGED <<serverVars, main, reply, cite, tracker, ioVars>>

\* A title: its words, the length of a run of backslashes in it, and
\* whether the character after the run is an ASCII letter that is no escape
\* of a replacement template (as the d of \d).
Title(words, slashes, letter) ==
    [words |-> words, slashes |-> slashes, letter |-> letter]
CiteNames ==
    {<<"s1", Title("t1", 0, FALSE)>>, <<"s2", Title("t2", 0, FALSE)>>,
     <<"s2", Title("t2", MaxSlashes, TRUE)>>}

\* A line of a sources section: [n] Site - "Title" - URL, or a line that the
\* citation pattern does not match.
CitationLine(n, site, title, url) ==
    [ok |-> TRUE, old_num |-> n, site_name |-> site, title |-> title, url |-> url]
MalformedLine ==
    [ok |-> FALSE, old_num |-> 0, site_name |-> "", title |-> Title("", 0, FALSE),
     url |-> Url("", "", FALSE, FALSE, FALSE, <<>>, FALSE, FALSE)]
SourceLines ==
    {CitationLine(n, nm[1], nm[2], u) :
        n \in 1..MaxLabel, nm \in CiteNames, u \in CiteUrls}
    \cup {MalformedLine}

\* A text: the citation numbers of its in-text references, in order, and
\* its sources section, if it has one, as its lines.
Text(body, sources) == [body |-> body, sources |-> sources]
Texts ==
    {Text(b, src) :
        b \in UNION {[1..n -> 1..(MaxLabel + 1)] : n \in 0..MaxRefs},
        src \in {None} \cup
                {Some(ls) : ls \in UNION {[1..n -> SourceLines] : n \in 0..MaxLines}}}

\* extract_sources_section(text): the section's content, or None.
ExtractSourcesSection(text) == text.sources

\* extract_citations(text): the lines the citation pattern matches.
IsCitation(l) == l.ok
ExtractCitations(lines) == SelectSeq(lines, IsCitation)

\* url_to_citation: the dict keyed by normalized URL, in insertion order,
\* built from the citations left to read and the groups made so far.
RECURSIVE UrlToCitation(_, _)
UrlToCitation(citations, groups) ==
    IF citations = <<>> THEN groups
    ELSE LET c == Head(citations)
             n == NormalizeUrl(c.url)
             hit == {i \in 1..Len(groups) : groups[i].norm = n}
         IN  IF hit = {}
             THEN UrlToCitation(Tail(citations),
                      Append(groups,
                             [norm |-> n, new_num |-> Len(groups) + 1,
                              site_name |-> c.site_name, title |-> c.title,
                              original_url |-> c.url, old_nums |-> <<c.old_num>>]))
             ELSE LET i == CHOOSE i \in hit : TRUE IN
                  UrlToCitation(Tail(citations),
                      [groups EXCEPT ![i].old_nums = Append(@, c.old_num)])

\* The assignments old_to_new_mapping[old_num] = new_num, in the order the
\* two loops make them.
RECURSIVE MappingWrites(_)
MappingWrites(groups) ==
    IF groups = <<>> THEN <<>>
    ELSE [i \in 1..Len(groups[1].old_nums) |->
             <<groups[1].old_nums[i], groups[1].new_num>>]
         \o MappingWrites(Tail(groups))

\* old_to_new_mapping.items(): a key stays where it was first inserted and
\* holds the value last assigned to it.
KeepsPlace(writes, i) == \A k \in 1..(i - 1) : writes[k][1] # writes[i][1]
LastValue(writes, key) ==
    LET last == CHOOSE i \in 1..Len(writes) :
                    /\ writes[i][1] = key
                    /\ \A k \in (i + 1)..Len(writes) : writes[k][1] # key
    IN  writes[last][2]
RECURSIVE MappingItemsFrom(_, _)
MappingItemsFrom(writes, i) ==
    IF i > Len(writes) THEN <<>>
    ELSE (IF KeepsPlace(writes, i)
          THEN << <<writes[i][1], LastValue(writes, writes[i][1])>> >>
          ELSE <<>>)
         \o MappingItemsFrom(writes, i + 1)
MappingItems(writes) == MappingItemsFrom(writes, 1)

\* The re.sub calls of the loop over the mapping, one after the other, each
\* over the whole text.
RECURSIVE ReplaceNumbers(_, _)
ReplaceNumbers(body, items) ==
    IF items = <<>> THEN body
    ELSE ReplaceNumbers([i \in 1..Len(body) |->
                            IF body[i] = items[1][1] THEN items[1][2] ELSE body[i]],
                        Tail(items))

\* new_sources_lines: one line per entry of url_to_citation.
NewSourcesLines(groups) ==
    [i \in 1..Len(groups) |->
        CitationLine(groups[i].new_num, groups[i].site_name, groups[i].title,
                     groups[i].original_url)]

\* DeduplicationResult
DeduplicationResult(text, removed, final) ==
    [updated_text |-> text, deduplicated_count |-> removed, final_count |-> final]

\* The call ends with re.error, and whether a result is that.
ReError == [error |-> "re.error"]
Raised(result) == "error" \in DOMAIN result

\* What re.sub makes of a title written into its replacement template: a
\* pair of backslashes becomes one backslash, a last backslash stays before
\* a character that is no letter, and is a bad escape before a letter.
BadEscape(title) == title.slashes % 2 = 1 /\ title.letter
ExpandTemplate(title) == [title EXCEPT !.slashes = (@ + 1) \div 2]

\* re.sub(sources_pattern, f"## Sources\n\n{new_sources_section}", text): the
\* section of the text is replaced by the expansion of the new section.
SubSources(body, lines) ==
    IF \E i \in 1..Len(lines) : BadEscape(lines[i].title)
    THEN None
    ELSE Some(Text(body, Some([i \in 1..Len(lines) |->
                  [lines[i] EXCEPT !.title = ExpandTemplate(@)]])))

\* A deduplicate_citation_urls without the return for a section in which no
\* line is a citation: it rebuilds the section from no entry.
DeduplicateCitationUrlsRebuildsAlways(text) ==
    LET section == ExtractSourcesSection(text) IN
    IF section = None \/ section = Some(<<>>)
    THEN DeduplicationResult(text, 0, 0)
    ELSE LET citations == ExtractCitations(section[1])
             groups == UrlToCitation(citations, <<>>)
             items == MappingItems(MappingWrites(groups))
             updated == SubSources(ReplaceNumbers(text.body, items),
                                   NewSourcesLines(groups))
         IN  IF updated = None THEN ReError
             ELSE DeduplicationResult(updated[1],
                      Len(citations) - Len(groups), Len(groups))

\* deduplicate_citation_urls(master_synthesis)
DeduplicateCitationUrls(text) ==
    LET section == ExtractSourcesSection(text) IN
    IF section = None \/ section = Some(<<>>)
    THEN DeduplicationResult(text, 0, 0)
    ELSE LET citations == ExtractCitations(section[1]) IN
         IF citations = <<>>
         THEN DeduplicationResult(text, 0, 0)
         ELSE LET groups == UrlToCitation(citations, <<>>)
                  items == MappingItems(MappingWrites(groups))
                  updated == SubSources(ReplaceNumbers(text.body, items),
                                        NewSourcesLines(groups))
              IN  IF updated = None THEN ReError
                  ELSE DeduplicationResult(updated[1],
                           Len(citations) - Len(groups), Len(groups))

\* No text at hand, and a text about to be processed.
NoCite == [text |-> Text(<<>>, None), out |-> None, again |-> None]

\* The call deduplicate_citation_urls(text) ends.
Deduplicate ==
    /\ cite.out = None
    /\ cite # NoCite
    /\ cite' = [cite EXCEPT !.out = Some(DeduplicateCitationUrls(cite.text))]
    /\ UNCHANGED <<serverVars, main, reply, norm, tracker, ioVars>>

\* A second call, deduplicate_citation_urls(result.updated_text), ends.
DeduplicateAgain ==
    /\ cite.out # None
    /\ ~Raised(cite.out[1])
    /\ cite.again = None
    /\ cite' = [cite EXCEPT
                    !.again = Some(DeduplicateCitationUrls(cite.out[1].updated_text))]
    /\ UNCHANGED <<serverVars, main, reply, norm, tracker, ioVars>>

(***************************************************************************)
(* The source tracker (processing/source_tracker.py).                      *)
(***************************************************************************)
\* The most URLs of one add_urls call and the most lines of the sources
\* section of a text given to the tracker.
MaxAdded == 2
MaxCited == 2

\* The URLs given to the tracker and cited in its texts, in the order of
\* their strings: a page written with an upper-case scheme, plainly, with a
\* trailing slash, with parameters and a slash, with a query, and a page of
\* another host.
TrackerUrls ==
    <<Url("a", "/p", TRUE, FALSE, FALSE, <<>>, FALSE, FALSE),
      Url("a", "/p", FALSE, FALSE, FALSE, <<>>, FALSE, FALSE),
      Url("a", "/p", FALSE, FALSE, FALSE, <<"/">>, FALSE, FALSE),
      Url("a", "/p", FALSE, FALSE, FALSE, <<";", "/">>, FALSE, FALSE),
      Url("a", "/p", FALSE, FALSE, FALSE, <<>>, TRUE, FALSE),
      Url("b", "/p", FALSE, FALSE, FALSE, <<>>, FALSE, FALSE)>>
TrackerUrlSet == {TrackerUrls[i] : i \in 1..Len(TrackerUrls)}

\* sorted(urls)
Sorted(urls) ==
    LET Among(u) == u \in urls IN SelectSeq(TrackerUrls, Among)

\* A line of a sources section that ends with the URL u: a citation when
\* the citation pattern, which wants http or https in lower case, matches.
LineWithUrl(u) ==
    [ok |-> ~u.schemeUpper, old_num |-> 1, site_name |-> "s1",
     title |-> Title("t1", 0, FALSE), url |-> u]
TrackerTexts ==
    {Text(<<>>, src) :
        src \in {None} \cup
                {Some([i \in 1..Len(us) |-> LineWithUrl(us[i])]) :
                    us \in UNION {[1..n -> TrackerUrlSet] : n \in 0..MaxCited}}}

\* extract_urls_from_text(text): what the pattern https?://[^\s\n]+ finds.
ExtractUrlsFromText(lines) ==
    {lines[i].url : i \in {k \in 1..Len(lines) :
                              lines[k].url.host # "" /\ ~lines[k].url.schemeUpper}}

\* get_cited_urls_from_synthesis(synthesis_text)
GetCitedUrlsFromSynthesis(text) ==
    LET section == ExtractSourcesSection(text) IN
    IF section = None \/ section = Some(<<>>) THEN {}
    ELSE {NormalizeUrl(u) : u \in ExtractUrlsFromText(section[1])}

\* SourceTracker(): no URL tracked. passed is the set of the URLs given to
\* add_url and add_urls so far, and out what the last call returned.
NoTracker == [tracked_urls |-> {}, passed |-> {}, out |-> None]

\* add_url(url)
AddUrl(url) ==
    /\ tracker' = [tracker EXCEPT !.tracked_urls = @ \cup {url},
                                  !.passed = @ \cup {url},
                                  !.out = None]
    /\ UNCHANGED <<serverVars, main, reply, cite, norm, ioVars>>

\* An add_urls that keeps the URLs of the last call only.
AddUrlsReplaces(urls) ==
    /\ tracker' = [tracker EXCEPT
                      !.tracked_urls = {urls[i] : i \in 1..Len(urls)},
                      !.passed = @ \cup {urls[i] : i \in 1..Len(urls)},
                      !.out = None]
    /\ UNCHANGED <<serverVars, main, reply, cite, norm, ioVars>>

\* add_urls(urls)
AddUrls(urls) ==
    /\ tracker' = [tracker EXCEPT
                      !.tracked_urls = @ \cup {urls[i] : i \in 1..Len(urls)},
                      !.passed = @ \cup {urls[i] : i \in 1..Len(urls)},
                      !.out = None]
    /\ UNCHANGED <<serverVars, main, reply, cite, norm, ioVars>>

\* get_all_sources()
GetAllSources(t) == Sorted(t.tracked_urls)

\* get_additional_sources(synthesis_text)
GetAdditionalSources(t, text) ==
    LET cited_urls == GetCitedUrlsFromSynthesis(text)
        NotCited(source) == NormalizeUrl(source) \notin cited_urls
    IN  SelectSeq(GetAllSources(t), NotCited)

\* A quotient, and the 0.0 of a tracker without sources.
Rate(num, den) == [num |-> num, den |-> den]
ZeroRate == Rate(0, 1)

\* A get_source_statistics that counts the URLs cited in the text.
GetSourceStatisticsCountsText(t, text) ==
    LET all_sources == GetAllSources(t)
        additional_sources == GetAdditionalSources(t, text)
        cited_sources == Cardinality(GetCitedUrlsFromSynthesis(text))
    IN  [total_sources |-> Len(all_sources),
         cited_sources |-> cited_sources,
         additional_sources |-> Len(additional_sources),
         citation_rate |-> IF all_sources # <<>>
                           THEN Rate(cited_sources, Len(all_sources))
                           ELSE ZeroRate]

\* get_source_statistics(synthesis_text)
GetSourceStatistics(t, text) ==
    LET all_sources == GetAllSources(t)
        additional_sources == GetAdditionalSources(t, text)
        cited_sources == Len(all_sources) - Len(additional_sources)
    IN  [total_sources |-> Len(all_sources),
         cited_sources |-> cited_sources,
         additional_sources |-> Len(additional_sources),
         citation_rate |-> IF all_sources # <<>>
                           THEN Rate(cited_sources, Len(all_sources))
                           ELSE ZeroRate]

\* A call of one of the three queries returns.
Returned(op, text, value) == [op |-> op, text |-> text, value |-> value]
CallGetAllSources ==
    /\ tracker' = [tracker EXCEPT
                      !.out = Some(Returned("all", Text(<<>>, None),
                                            GetAllSources(tracker)))]
    /\ UNCHANGED <<serverVars, main, reply, cite, norm, ioVars>>
CallGetAdditionalSources(text) ==
    /\ tracker' = [tracker EXCEPT
                      !.out = Some(Returned("additional", text,
                                            GetAdditionalSources(tracker, text)))]
    /\ UNCHANGED <<serverVars, main, reply, cite, norm, ioVars>>
CallGetSourceStatistics(text) ==
    /\ tracker' = [tracker EXCEPT
                      !.out = Some(Returned("statistics", text,
                                            GetSourceStatistics(tracker, text)))]
    /\ UNCHANGED <<serverVars, main, reply, cite, norm, ioVars>>

(***************************************************************************)
(* fetch_web_content on a list of URLs (research_orchestrator/tools.py,    *)
(* research_orchestrator/web/content_fetcher.py).                          *)
(***************************************************************************)
\* urls[:5]
MaxUrlsPerCall == 5
\* The longest list of URLs a call is given.
MaxFetchLen == 6

\* How fetch_content(url) ends: a page, an error response, or an exception
\* that leaves the coroutine and that gather hands back as a result.
FetchOutcomes == {"page", "error_response", "exception"}

\* seq[:n]
Prefix(seq, n) == SubSeq(seq, 1, IF Len(seq) < n THEN Len(seq) ELSE n)

\* get_blocked_url_error(url)
GetBlockedUrlError(u) ==
    [url |-> u, success |-> FALSE, error |-> "URL blocked"]

\* What fetch_content_batch makes of the i-th gathered result.
ProcessedResult(u, outcome) ==
    CASE outcome = "page" -> [url |-> u, success |-> TRUE, error |-> ""]
      [] outcome = "error_response" ->
             [url |-> u, success |-> FALSE, error |-> "Request failed"]
      [] outcome = "exception" ->
             [url |-> u, success |-> FALSE, error |-> "Fetch failed"]

\* fetch_content_batch(urls): one processed result per URL, in list order.
FetchContentBatch(urls, outcome) ==
    [i \in 1..Len(urls) |-> ProcessedResult(urls[i], outcome[i])]

\* [x for x in seq if Test(x)]
RECURSIVE BlockedOf(_)
BlockedOf(seq) ==
    IF seq = <<>> THEN <<>>
    ELSE (IF IsUrlBlocked(Head(seq)) THEN <<Head(seq)>> ELSE <<>>)
             \o BlockedOf(Tail(seq))
RECURSIVE FilteredOf(_)
FilteredOf(seq) ==
    IF seq = <<>> THEN <<>>
    ELSE (IF IsUrlBlocked(Head(seq)) THEN <<>> ELSE <<Head(seq)>>)
             \o FilteredOf(Tail(seq))

\* The URLs of the results that say success.
SuccessUrls(rs) == {rs[i].url : i \in {k \in 1..Len(rs) : rs[k].success}}

\* A fetch_web_content that tracks the URL of every result.
FetchWebContentTracksAll(urls, outcome) ==
    LET first == Prefix(urls, MaxUrlsPerCall)
        blocked_results ==
            [i \in 1..Len(BlockedOf(first)) |-> GetBlockedUrlError(BlockedOf(first)[i])]
        filtered_urls == FilteredOf(first)
        all_results == blocked_results \o FetchContentBatch(filtered_urls, outcome)
    IN  [passed |-> filtered_urls,
         all_results |-> all_results,
         tracked |-> {all_results[i].url : i \in 1..Len(all_results)}]

\* fetch_web_content(urls), given how the fetch of each URL that is passed
\* to the fetcher ends: the list passed to fetch_content_batch, the results
\* returned, and the URLs added to tracked_urls.
FetchWebContent(urls, outcome) ==
    LET first == Prefix(urls, MaxUrlsPerCall)
        blocked_results ==
            [i \in 1..Len(BlockedOf(first)) |-> GetBlockedUrlError(BlockedOf(first)[i])]
        filtered_urls == FilteredOf(first)
        fetch_results == IF filtered_urls # <<>>
                         THEN FetchContentBatch(filtered_urls, outcome)
                         ELSE <<>>
        all_results == blocked_results \o fetch_results
    IN  [passed |-> filtered_urls,
         all_results |-> all_results,
         tracked |-> SuccessUrls(all_results)]

\* No call of fetch_web_content has been made.
NoFetch ==
    [before |-> {}, urls |-> <<>>, outcome |-> <<>>, passed |-> <<>>,
     out |-> None, tracked_urls |-> {}]

\* The lists of URLs a call is given, and the calls to make: the tracked
\* set holds URLs of earlier successful fetches.
FetchInputs == UNION {[1..n -> AllUrls] : n \in 0..MaxFetchLen}
FetchCalls ==
    {[NoFetch EXCEPT !.before = t, !.tracked_urls = t, !.urls = us] :
        t \in SUBSET Urls, us \in FetchInputs}

\* fetch_web_content(fetch.urls) runs.
CallFetchWebContent(outcome) ==
    /\ fetch.out = None
    /\ DOMAIN outcome = 1..Len(FilteredOf(Prefix(fetch.urls, MaxUrlsPerCall)))
    /\ LET r == FetchWebContent(fetch.urls, outcome) IN
       fetch' = [fetch EXCEPT
                    !.outcome = outcome,
                    !.passed = r.passed,
                    !.out = Some(r.all_results),
                    !.tracked_urls = @ \cup r.tracked]
    /\ UNCHANGED <<serverVars, main, reply, cite, norm, tracker, listing,
                   search, cache>>

(***************************************************************************)
(* The search cache (research_orchestrator/search/cache.py): one JSON file *)
(* per key and cache_metadata.json, in a directory that the SearchCache    *)
(* objects of every job share.                                             *)
(***************************************************************************)
\* cache_ttl_hours = 24, in seconds
CacheTtl == 86400

\* A query string: its words in lower case, whether it is written in upper
\* case, and whether blanks surround it.
Query(words, upper, padded) ==
    [words |-> words, upper |-> upper, padded |-> padded]

\* str.lower() and str.strip()
Lower(q) == [q EXCEPT !.upper = FALSE]
StripBlanks(q) == [q EXCEPT !.padded = FALSE]

\* _generate_cache_key(query, count): the md5 of f"{query.lower().strip()}_{count}",
\* named here by the string that is hashed.
GenerateCacheKey(q, count) == <<StripBlanks(Lower(q)), count>>

\* An empty cache directory, as SearchCache.__init__ leaves a new one.
NoCache == [files |-> <<>>, metadata |-> <<>>]

\* _is_cache_expired(cached_time)
IsCacheExpired(cached_at, t) == t - cached_at > CacheTtl

\* _remove_expired_entry(cache_key)
RemoveExpiredEntry(ch, key) ==
    [files |-> IF key \in DOMAIN ch.files THEN Del(ch.files, key) ELSE ch.files,
     metadata |-> IF key \in DOMAIN ch.metadata THEN Del(ch.metadata, key)
                                                  ELSE ch.metadata]

\* get(query, count) at time t: what it returns and the directory it leaves.
CacheGet(ch, q, count, t) ==
    LET key == GenerateCacheKey(q, count) IN
    IF key \notin DOMAIN ch.files THEN [value |-> None, cache |-> ch]
    ELSE IF key \notin DOMAIN ch.metadata THEN [value |-> None, cache |-> ch]
    ELSE IF IsCacheExpired(ch.metadata[key].cached_at, t)
    THEN [value |-> None, cache |-> RemoveExpiredEntry(ch, key)]
    ELSE [value |-> Some(ch.files[key]), cache |-> ch]

(***************************************************************************)
(* web_search(query, count, cache=cache) of each caller, step by step      *)
(* (research_orchestrator/web/search/web_search.py). The callers are the   *)
(* threads of different jobs; cache.set is three file operations, and      *)
(* another thread may run between any two of them.                         *)
(***************************************************************************)
Callers == {1, 2}
\* max_retries = 5
MaxRetries == 5

\* The queries and counts of each caller: the keys of caller 1 differ from
\* the key of caller 2, which asks for the same words with another count.
SearchArgs(c) ==
    IF c = 1
    THEN {<<Query("a", FALSE, FALSE), 5>>, <<Query("a", TRUE, TRUE), 5>>}
    ELSE {<<Query("a", FALSE, FALSE), 10>>}

\* What the API does with a request: an answer, a status error with code
\* 429 or another code, a timeout, or any other exception.
ApiResponses == {"ok", "429", "500", "timeout", "other"}

\* The instants of the clock: 0, the last instant at which an entry cached
\* at 0 is still valid, and the first one at which it has expired.
CacheInstants == {0, CacheTtl, CacheTtl + 1}

\* No call of web_search is running.
NoCall ==
    [pc |-> "idle", query |-> Query("", FALSE, FALSE), count |-> 0,
     attempt |-> 0, delays |-> <<>>, last |-> None, metadata |-> <<>>,
     results |-> None, out |-> None]
NoSearch == [c \in Callers |-> NoCall]

\* The delay of exponential_backoff(factor=1.0) before attempt n, counted
\* from 0: 0, 1, 2, 4, 8, 16.
ExponentialBackoff(n) == IF n = 0 THEN 0 ELSE 2 ^ (n - 1)

\* A loop that retries after every status error.
AfterResponseRetriesAnyStatus(attempt, resp) ==
    CASE resp = "ok" -> "return"
      [] resp \in {"429", "500"} /\ attempt < MaxRetries -> "continue"
      [] OTHER -> "raise"

\* What the loop of web_search does with the response of an attempt.
AfterResponse(attempt, resp) ==
    CASE resp = "ok" -> "return"
      [] resp = "429" /\ attempt < MaxRetries -> "continue"
      [] OTHER -> "raise"

\* The exception web_search raises.
SearchError(e) == Some([kind |-> "error", error |-> e])
\* The results web_search returns.
SearchResult(r) == Some([kind |-> "results", results |-> r])

\* web_search(q, count) is called: cache.get, whose hit is returned at once,
\* then the API key, whose absence raises ValueError.
WebSearchBegins(c, q, count, has_key) ==
    /\ search[c].pc \in {"idle", "done"}
    /\ LET got == CacheGet(cache, q, count, now)
           call == [NoCall EXCEPT !.query = q, !.count = count]
       IN  /\ cache' = got.cache
           /\ search' = [search EXCEPT ![c] =
                  IF got.value # None
                  THEN [call EXCEPT !.pc = "done",
                                    !.out = SearchResult(got.value[1])]
                  ELSE IF ~has_key
                  THEN [call EXCEPT !.pc = "done",
                                    !.out = SearchError("ValueError")]
                  ELSE [call EXCEPT !.pc = "request"]]
    /\ UNCHANGED <<serverVars, main, reply, cite, norm, tracker, listing,
                   fetch>>

\* One pass of the loop: asyncio.sleep(delay), then the request and what
\* follows from its response.
Request(c, resp) ==
    /\ search[c].pc = "request"
    /\ LET call == search[c]
           slept == [call EXCEPT
                        !.delays = Append(@, ExponentialBackoff(call.attempt)),
                        !.last = Some(resp)]
           then == AfterResponse(call.attempt, resp)
       IN  search' = [search EXCEPT ![c] =
               CASE then = "return" ->
                        [slept EXCEPT
                            !.pc = "set_file",
                            !.results = Some([query |-> call.query, from |-> c])]
                 [] then = "continue" ->
                        [slept EXCEPT !.attempt = @ + 1]
                 [] then = "raise" ->
                        [slept EXCEPT !.pc = "done", !.out = SearchError(resp)]]
    /\ UNCHANGED <<serverVars, main, reply, cite, norm, tracker, listing,
                   fetch, cache>>

\* cache.set: json.dump(results) into the file of the key.
SetWritesFile(c) ==
    /\ search[c].pc = "set_file"
    /\ cache' = [cache EXCEPT
                    !.files = Put(@, GenerateCacheKey(search[c].query,
                                                      search[c].count),
                                  search[c].results[1])]
    /\ search' = [search EXCEPT ![c].pc = "set_load"]
    /\ UNCHANGED <<serverVars, main, reply, cite, norm, tracker, listing,
                   fetch>>

\* cache.set: metadata = self._load_metadata()
SetLoadsMetadata(c) ==
    /\ search[c].pc = "set_load"
    /\ search' = [search EXCEPT ![c].pc = "set_save",
                                ![c].metadata = cache.metadata]
    /\ UNCHANGED <<serverVars, main, reply, cite, norm, tracker, listing,
                   fetch, cache>>

\* cache.set: metadata[cache_key] = {...}; self._save_metadata(metadata);
\* then web_search returns the results.
SetSavesMetadata(c) ==
    /\ search[c].pc = "set_save"
    /\ LET key == GenerateCacheKey(search[c].query, search[c].count)
           metadata == Put(search[c].metadata, key, [cached_at |-> now])
       IN  /\ cache' = [cache EXCEPT !.metadata = metadata]
           /\ search' = [search EXCEPT
                             ![c].pc = "done",
                             ![c].metadata = metadata,
                             ![c].out = SearchResult(search[c].results[1])]
    /\ UNCHANGED <<serverVars, main, reply, cite, norm, tracker, listing,
                   fetch>>

(***************************************************************************)
(* list_research_jobs, statement by statement (src/mcp_server/server.py).  *)
(* The tool runs in the server's thread while the cleanup timers and the   *)
(* background threads run in theirs, so another thread may run between any *)
(* two iterations of its loops.                                            *)
(***************************************************************************)
\* No call of list_research_jobs has been made.
NoListing ==
    [pc |-> "idle", cutoff_time |-> 0, used |-> 0, left |-> 0, pos |-> 0,
     remove |-> <<>>, job_list |-> <<>>, cleaned |-> 0, out |-> None]

\* iter(_research_jobs.items()): the dict's size when the iterator was made,
\* the number of items it still expects, and the last key it returned. A
\* dict keeps its keys in insertion order, which is the order of the ids.
IterNew(l, js) ==
    [l EXCEPT !.used = Cardinality(DOMAIN js),
              !.left = Cardinality(DOMAIN js),
              !.pos = 0]

\* next() on that iterator: RuntimeError when the dict's size has changed,
\* StopIteration when no key is left, RuntimeError when a key is left that
\* the iterator did not expect, the next item otherwise.
IterNext(l, js) ==
    LET rest == {j \in DOMAIN js : j > l.pos} IN
    IF Cardinality(DOMAIN js) # l.used
    THEN [kind |-> "error", error |-> "dictionary changed size during iteration"]
    ELSE IF rest = {}
    THEN [kind |-> "stop"]
    ELSE IF l.left = 0
    THEN [kind |-> "error", error |-> "dictionary keys changed during iteration"]
    ELSE [kind |-> "item", key |-> CHOOSE j \in rest : \A k \in rest : j <= k]

\* except Exception as e: return f"Error listing jobs: {str(e)}"
ListingError(l, e) ==
    [l EXCEPT !.pc = "done", !.out = Some([kind |-> "error", error |-> e])]

\* The line of the listing for one job.
JobSummary(j, job) ==
    [id |-> j, status |-> job.status, topic |-> job.topic,
     created |-> job.created_at]

(***************************************************************************)
(* Initial state: an empty store, no thread, the clock at 0.               *)
(***************************************************************************)
InitServer ==
    /\ now = 0
    /\ jobs = <<>>
    /\ issued = 0
    /\ timers = {}
    /\ pc = [j \in JobIds |-> "none"]
    /\ exc = [j \in JobIds |-> None]
    /\ leadCalls = [j \in JobIds |-> 0]
    /\ rounds = [j \in JobIds |-> 0]
    /\ queries = [j \in JobIds |-> 0]
    /\ results = [j \in JobIds |-> <<>>]
    /\ fetched = [j \in JobIds |-> {}]
    /\ tracked = [j \in JobIds |-> {}]
    /\ lastSources = [j \in JobIds |-> {}]
    /\ handed = [j \in JobIds |-> None]
    /\ threadTopic = [j \in JobIds |-> ""]

Init ==
    /\ InitServer
    /\ main = MainIdle
    /\ reply = None
    /\ cite = NoCite
    /\ norm = NoNorm
    /\ tracker = NoTracker
    /\ listing = NoListing
    /\ fetch = NoFetch
    /\ search = NoSearch
    /\ cache = NoCache

(***************************************************************************)
(* The MCP tools and the timers (src/mcp_server/server.py).                *)
(***************************************************************************)
\* create_research_report(topic): create_job, then research_thread.start(),
\* which starts the thread or raises.
CreateResearchReport(tp, started, limit) ==
    /\ issued < limit
    /\ issued' = issued + 1
    /\ jobs' = Put(jobs, issued + 1, NewJob(issued + 1, tp, now))
    /\ pc' = [pc EXCEPT ![issued + 1] = IF started THEN "start" ELSE "unstarted"]
    /\ threadTopic' = [threadTopic EXCEPT ![issued + 1] = tp]
    /\ UNCHANGED <<now, timers, exc, leadCalls, rounds, queries, results,
                   fetched, tracked, lastSources, handed>>
    /\ UNCHANGED libVars

\* get_research_report(job_id) / get_job(job_id): reads only.
GetResearchReport(j) ==
    /\ j \in JobIds
    /\ UNCHANGED vars

\* get_job(job_id): _research_jobs.get(job_id)
GetJob(js, j) == IF j \in DOMAIN js THEN Some(js[j]) ELSE None

\* What get_research_report(job_id) returns: not found, or the status of
\* the job with the result, the error or the progress that its text shows.
ReportOf(js, j) ==
    LET job == GetJob(js, j) IN
    IF job = None
    THEN [id |-> j, kind |-> "not_found", body |-> None]
    ELSE [id |-> j, kind |-> job[1].status,
          body |-> CASE job[1].status = COMPLETED -> job[1].result
                     [] job[1].status = FAILED -> job[1].error
                     [] job[1].status = IN_PROGRESS ->
                            Some(<<job[1].progress.subtopics_completed,
                                   job[1].progress.subtopics_total>>)
                     [] OTHER -> None]

\* A get_research_report that takes the job out of the store as it reads.
GetResearchReportPops(j) ==
    /\ j \in JobIds
    /\ reply' = Some(ReportOf(jobs, j))
    /\ jobs' = CleanupJobSync(jobs, j)
    /\ UNCHANGED <<now, issued, timers, pc, exc, main, cite, norm, tracker, ioVars>>
    /\ UNCHANGED coordVars

\* get_research_report(job_id), with the reply its caller receives.
GetResearchReportReply(j) ==
    /\ j \in JobIds
    /\ reply' = Some(ReportOf(jobs, j))
    /\ UNCHANGED <<serverVars, main, cite, norm, tracker, ioVars>>

\* list_research_jobs(): returns at once on an empty store, else sweeps.
ListResearchJobs ==
    /\ jobs # <<>>
    /\ jobs' = CleanupOldJobs(jobs, now)
    /\ UNCHANGED <<now, issued, timers, pc, exc>>
    /\ UNCHANGED coordVars
    /\ UNCHANGED libVars

\* A cleanup timer runs cleanup_job_sync(job_id) once its delay has elapsed.
TimerFires(tm) ==
    /\ tm \in timers
    /\ now >= tm.due
    /\ jobs' = CleanupJobSync(jobs, tm.job)
    /\ timers' = timers \ {tm}
    /\ UNCHANGED <<now, issued, pc, exc>>
    /\ UNCHANGED coordVars
    /\ UNCHANGED libVars

\* The instants the clock takes: 0, each cleanup delay, and the first
\* second at which a job created at 0 is older than the sweep's age.
Instants == {0, FailureDelay, SuccessDelay, SweepAge + 1}

\* The clock advances to a later instant.
Tick(t) ==
    /\ t > now
    /\ now' = t
    /\ UNCHANGED <<jobs, issued, timers, pc, exc>>
    /\ UNCHANGED coordVars
    /\ UNCHANGED libVars

\* list_research_jobs() is called: `if not _research_jobs` returns at once,
\* otherwise cleanup_old_jobs() takes its cutoff time and starts to iterate
\* over the store.
ListBegins ==
    /\ listing.pc \in {"idle", "done"}
    /\ listing' = IF jobs = <<>>
                   THEN [NoListing EXCEPT !.pc = "done",
                                          !.out = Some([kind |-> "none"])]
                   ELSE IterNew([NoListing EXCEPT
                                    !.pc = "sweep",
                                    !.cutoff_time = now - SweepAge], jobs)
    /\ UNCHANGED <<serverVars, main, reply, cite, norm, tracker, fetch,
                   search, cache>>

\* One iteration of `for job_id, job in _research_jobs.items()` of
\* cleanup_old_jobs: the job is noted when it is older than the cutoff.
SweepNext ==
    /\ listing.pc = "sweep"
    /\ LET nx == IterNext(listing, jobs) IN
       listing' =
           CASE nx.kind = "error" -> ListingError(listing, nx.error)
             [] nx.kind = "stop" -> [listing EXCEPT !.pc = "del"]
             [] nx.kind = "item" ->
                    [listing EXCEPT
                        !.pos = nx.key,
                        !.left = @ - 1,
                        !.remove = IF jobs[nx.key].created_at < listing.cutoff_time
                                   THEN Append(@, nx.key) ELSE @]
    /\ UNCHANGED <<serverVars, main, reply, cite, norm, tracker, fetch,
                   search, cache>>

\* One iteration of `for job_id in jobs_to_remove: del _research_jobs[job_id]`,
\* which raises KeyError when the record is gone; after the last one,
\* cleaned = len(jobs_to_remove) and the listing starts to iterate.
SweepDel ==
    /\ listing.pc = "del"
    /\ IF listing.remove = <<>>
       THEN /\ listing' = IterNew([listing EXCEPT !.pc = "list"], jobs)
            /\ jobs' = jobs
       ELSE IF Head(listing.remove) \in DOMAIN jobs
       THEN /\ jobs' = Del(jobs, Head(listing.remove))
            /\ listing' = [listing EXCEPT !.remove = Tail(@),
                                          !.cleaned = @ + 1]
       ELSE /\ listing' = ListingError(listing, "KeyError")
            /\ jobs' = jobs
    /\ UNCHANGED <<now, issued, timers, pc, exc>>
    /\ UNCHANGED coordVars
    /\ UNCHANGED <<main, reply, cite, norm, tracker, fetch, search, cache>>

\* One iteration of `for job_id, job in _research_jobs.items()` of
\* list_research_jobs, which appends the job's line; after the last one the
\* tool returns the lines and the number of jobs cleaned up.
ListNext ==
    /\ listing.pc = "list"
    /\ LET nx == IterNext(listing, jobs) IN
       listing' =
           CASE nx.kind = "error" -> ListingError(listing, nx.error)
             [] nx.kind = "stop" ->
                    [listing EXCEPT
                        !.pc = "done",
                        !.out = Some([kind |-> "jobs",
                                      jobs |-> listing.job_list,
                                      cleaned |-> listing.cleaned])]
             [] nx.kind = "item" ->
                    [listing EXCEPT
                        !.pos = nx.key,
                        !.left = @ - 1,
                        !.job_list = Append(@, JobSummary(nx.key, jobs[nx.key]))]
    /\ UNCHANGED <<serverVars, main, reply, cite, norm, tracker, fetch,
                   search, cache>>

(***************************************************************************)
(* execute_research_job_sync(job_id, topic), step by step. A step ends     *)
(* with at most one write to the job store.                                *)
(***************************************************************************)
\* The thread of job j ends: its orchestrator, agent manager and exception
\* are unreachable from then on.
ThreadEnds(j) ==
    /\ exc' = [exc EXCEPT ![j] = None]
    /\ rounds' = [rounds EXCEPT ![j] = 0]
    /\ queries' = [queries EXCEPT ![j] = 0]
    /\ results' = [results EXCEPT ![j] = <<>>]
    /\ fetched' = [fetched EXCEPT ![j] = {}]
    /\ tracked' = [tracked EXCEPT ![j] = {}]
    /\ lastSources' = [lastSources EXCEPT ![j] = {}]
    /\ handed' = [handed EXCEPT ![j] = None]
    /\ UNCHANGED <<leadCalls, threadTopic>>

\* A handler that logs the exception and leaves the job's status as it is.
FailJobForgotten(j, e) ==
    /\ jobs' = jobs
    /\ pc' = [pc EXCEPT ![j] = "ftimer"]

\* except Exception as e: update_job_status(job_id, FAILED, error=str(e));
\* the failure timer is started next.
FailJob(j, e) ==
    /\ jobs' = UpdateJobStatus(jobs, j, FAILED, [error |-> Some(e)], now)
    /\ pc' = [pc EXCEPT ![j] = "ftimer"]

\* update_job_status(job_id, JobStatus.IN_PROGRESS)
BeginJob(j) ==
    /\ pc[j] = "start"
    /\ jobs' = UpdateJobStatus(jobs, j, IN_PROGRESS, <<>>, now)
    /\ pc' = [pc EXCEPT ![j] = "orch"]
    /\ UNCHANGED <<now, issued, timers, exc>>
    /\ UNCHANGED coordVars
    /\ UNCHANGED libVars

\* create_orchestrator and the event loop, then conduct_research calls
\* lead_researcher(prompt) once; a failure before that goes to the handler.
StartWorkflow(j, ok) ==
    /\ pc[j] = "orch"
    /\ IF ok
       THEN /\ leadCalls' = [leadCalls EXCEPT ![j] = @ + 1]
            /\ pc' = [pc EXCEPT ![j] = "lead"]
            /\ jobs' = jobs
       ELSE /\ FailJob(j, OtherError("orchestrator_init"))
            /\ leadCalls' = leadCalls
    /\ UNCHANGED <<now, issued, timers, exc, rounds, queries, results,
                   fetched, tracked, lastSources, handed, threadTopic>>
    /\ UNCHANGED libVars

\* The lead researcher calls streaming_research_specialist(queries) with n
\* queries: research_started is reported and the leaf tasks are created.
LeadCallsTool(j, n, maxr) ==
    /\ pc[j] = "lead"
    /\ rounds[j] < maxr
    /\ rounds' = [rounds EXCEPT ![j] = @ + 1]
    /\ jobs' = ProgressCallback(jobs, j, "research_started", n, now)
    /\ queries' = [queries EXCEPT ![j] = n]
    /\ results' = [results EXCEPT ![j] = <<>>]
    /\ fetched' = [fetched EXCEPT ![j] = {}]
    /\ handed' = [handed EXCEPT ![j] = None]
    /\ pc' = [pc EXCEPT ![j] = IF n = 0 THEN "gathered" ELSE "leaf"]
    /\ UNCHANGED <<now, issued, timers, exc, leadCalls, tracked,
                   lastSources, threadTopic>>
    /\ UNCHANGED libVars

\* A fetch_web_content that adds to one set of URLs shared by every agent
\* manager, as a set created in the class body would be.
LeafFetchShared(j, urls, ok) ==
    /\ pc[j] = "leaf"
    /\ tracked' = [k \in JobIds |-> tracked[k] \cup FetchTracked(urls, ok)]
    /\ fetched' = [fetched EXCEPT ![j] = @ \cup FetchTracked(urls, ok)]
    /\ UNCHANGED <<leadCalls, rounds, queries, results, lastSources, handed,
                   threadTopic>>
    /\ UNCHANGED jobVars
    /\ UNCHANGED libVars

\* The running leaf calls fetch_web_content(urls); the fetches of ok succeed.
LeafFetch(j, urls, ok) ==
    /\ pc[j] = "leaf"
    /\ tracked' = [tracked EXCEPT ![j] = @ \cup FetchTracked(urls, ok)]
    /\ fetched' = [fetched EXCEPT ![j] = @ \cup FetchTracked(urls, ok)]
    /\ UNCHANGED <<leadCalls, rounds, queries, results, lastSources, handed,
                   threadTopic>>
    /\ UNCHANGED jobVars
    /\ UNCHANGED libVars

\* A research_single_async whose result goes to the front of the list.
LeafEndsStacked(j, ok) ==
    LET q == Len(results[j]) + 1 IN
    /\ results' = [results EXCEPT ![j] = <<LeafResult(q, ok, fetched[j])>> \o @]
    /\ fetched' = [fetched EXCEPT ![j] = {}]
    /\ pc' = [pc EXCEPT ![j] = IF q = queries[j] THEN "gathered" ELSE "leaf"]
    /\ UNCHANGED <<now, issued, timers, exc, leadCalls, rounds, queries,
                   tracked, lastSources, handed, threadTopic>>
    /\ UNCHANGED libVars

\* What research_single_async does once a leaf is over, for either ending.
LeafEnds(j, ok) ==
    LET q == Len(results[j]) + 1 IN
    /\ results' = [results EXCEPT ![j] = Append(@, LeafResult(q, ok, fetched[j]))]
    /\ fetched' = [fetched EXCEPT ![j] = {}]
    /\ pc' = [pc EXCEPT ![j] = IF q = queries[j] THEN "gathered" ELSE "leaf"]
    /\ UNCHANGED <<now, issued, timers, exc, leadCalls, rounds, queries,
                   tracked, lastSources, handed, threadTopic>>
    /\ UNCHANGED libVars

\* The query indexes (query_index) of the leaves whose subagent call is in
\* progress: a coroutine has no await, so it runs from its first line to its
\* return before the event loop starts the next one.
InFlight(j) == IF pc[j] = "leaf" THEN {Len(results[j])} ELSE {}

\* subagent(prompt) returns a report: subtopic_completed is reported with
\* completed_count = query_index + 1; a raising callback is caught by the
\* same handler as a raising subagent.
LeafReturns(j) ==
    /\ pc[j] = "leaf"
    /\ IF CallbackRaises(jobs, j, "subtopic_completed")
       THEN /\ jobs' = jobs
            /\ LeafEnds(j, FALSE)
       ELSE /\ jobs' = ProgressCallback(jobs, j, "subtopic_completed",
                                        Len(results[j]) + 1, now)
            /\ LeafEnds(j, TRUE)

\* A leaf whose exception leaves research_single_async: gather hands it on
\* at once and the remaining leaves never report.
LeafRaisesCancels(j) ==
    /\ pc[j] = "leaf"
    /\ pc' = [pc EXCEPT ![j] = "gathered"]
    /\ UNCHANGED <<now, jobs, issued, timers, exc>>
    /\ UNCHANGED coordVars
    /\ UNCHANGED libVars

\* subagent(prompt) raises: the task returns "Research failed for ...".
LeafRaises(j) ==
    /\ pc[j] = "leaf"
    /\ jobs' = jobs
    /\ LeafEnds(j, FALSE)

\* After gather: last_research_sources, research_completed, then the
\* consolidation by the synthesis agent, and the tool's return value. A
\* raising callback ends the tool call with an error and no report.
FanIn(j, consolidated) ==
    /\ pc[j] = "gathered"
    /\ lastSources' = [lastSources EXCEPT ![j] = tracked[j]]
    /\ IF CallbackRaises(jobs, j, "research_completed")
       THEN /\ jobs' = jobs
            /\ handed' = [handed EXCEPT ![j] = Some({})]
       ELSE /\ jobs' = ProgressCallback(jobs, j, "research_completed", 0, now)
            /\ handed' = [handed EXCEPT ![j] =
                            Some(ToolReturn(FanInReturn(queries[j], consolidated)))]
    /\ pc' = [pc EXCEPT ![j] = "lead"]
    /\ UNCHANGED <<now, issued, timers, exc, leadCalls, rounds, queries,
                   results, fetched, tracked, threadTopic>>
    /\ UNCHANGED libVars

\* lead_researcher(prompt) returns the master synthesis, which cites the
\* URLs in cited; conduct_research returns the results and the thread
\* calls update_job_status(job_id, COMPLETED, result=..., full_results=...).
LeadReturns(j, cited) ==
    /\ pc[j] = "lead"
    /\ LET res == BuildResults(threadTopic[j], cited, lastSources[j]) IN
       jobs' = UpdateJobStatus(jobs, j, COMPLETED,
                  [result |-> Some(res.master_synthesis),
                   full_results |-> Some(res)], now)
    /\ pc' = [pc EXCEPT ![j] = "timer"]
    /\ UNCHANGED <<now, issued, timers, exc>>
    /\ UNCHANGED coordVars
    /\ UNCHANGED libVars

\* A workflow that swallows the lead's exception and returns its text as
\* the synthesis, as create_master_synthesis of main.py does.
LeadRaisesSwallowed(j, closed) ==
    /\ pc[j] = "lead"
    /\ exc' = [exc EXCEPT ![j] = Some(WorkflowError(threadTopic[j], "swallowed"))]
    /\ jobs' = UpdateJobStatus(jobs, j, COMPLETED,
                  [result |-> Some([cited |-> {}, additional |-> {}])], now)
    /\ pc' = [pc EXCEPT ![j] = "timer"]
    /\ UNCHANGED <<now, issued, timers>>
    /\ UNCHANGED coordVars
    /\ UNCHANGED libVars

\* lead_researcher(prompt) raises, while decomposing (no tool call made
\* yet) or while synthesizing: complete_research_workflow raises the
\* wrapped error, the finally clause closes the loop (which may raise
\* another error in its place), and the handler marks the job failed.
LeadRaises(j, closed) ==
    /\ pc[j] = "lead"
    /\ LET e == WorkflowError(threadTopic[j],
                   IF rounds[j] = 0 THEN "decomposition_failed"
                                    ELSE "synthesis_failed") IN
       /\ exc' = [exc EXCEPT ![j] = Some(e)]
       /\ FailJob(j, IF closed THEN e ELSE OtherError("loop_close_failed"))
    /\ UNCHANGED <<now, issued, timers>>
    /\ UNCHANGED coordVars
    /\ UNCHANGED libVars

\* After the COMPLETED write: threading.Timer(3600, cleanup).start(), then
\* finally: loop.close(). Either may raise, and the exception reaches the
\* handler of execute_research_job_sync.
AfterComplete(j, started, closed) ==
    /\ pc[j] = "timer"
    /\ timers' = IF started
                 THEN timers \cup {[job |-> j, due |-> now + SuccessDelay]}
                 ELSE timers
    /\ IF started /\ closed
       THEN /\ pc' = [pc EXCEPT ![j] = "done"]
            /\ jobs' = jobs
            /\ ThreadEnds(j)
       ELSE /\ FailJob(j, IF ~closed THEN OtherError("loop_close_failed")
                                     ELSE OtherError("cannot_start_thread"))
            /\ UNCHANGED <<exc>>
            /\ UNCHANGED coordVars
    /\ UNCHANGED <<now, issued>>
    /\ UNCHANGED libVars

\* threading.Timer(600, cleanup).start() in the handler: starts the timer,
\* or raises and ends the thread with the exception uncaught.
StartFailureTimer(j, ok) ==
    /\ pc[j] = "ftimer"
    /\ timers' = IF ok THEN timers \cup {[job |-> j, due |-> now + FailureDelay]}
                       ELSE timers
    /\ pc' = [pc EXCEPT ![j] = IF ok THEN "done" ELSE "died"]
    /\ ThreadEnds(j)
    /\ UNCHANGED <<now, jobs, issued>>
    /\ UNCHANGED libVars

(***************************************************************************)
(* The specification of the server: several jobs, their threads, timers.  *)
(***************************************************************************)
\* The topics and URLs of the server specification, and its instants: 0 and
\* the first second at which a job created at 0 is older than the sweep's age.
ServerTopics == {"tA"}
ServerUrls == {"u1"}
ServerInstants == {0, SweepAge + 1}

\* The steps of the background thread of job j, with the lead researcher
\* passing at most maxq queries in each of at most maxr tool calls, and the
\* leaves fetching URLs of pool.
ThreadStep(j, maxq, maxr, pool) ==
    \/ BeginJob(j)
    \/ \E ok \in BOOLEAN : StartWorkflow(j, ok)
    \/ \E n \in 0..maxq : LeadCallsTool(j, n, maxr)
    \/ \E urls \in SUBSET pool, ok \in SUBSET pool : LeafFetch(j, urls, ok)
    \/ LeafReturns(j)
    \/ LeafRaises(j)
    \/ \E c \in BOOLEAN : FanIn(j, c)
    \/ \E cited \in SUBSET (pool \ BlockedUrls) : LeadReturns(j, cited)
    \/ \E closed \in BOOLEAN : LeadRaises(j, closed)
    \/ \E started \in BOOLEAN, closed \in BOOLEAN : AfterComplete(j, started, closed)
    \/ \E ok \in BOOLEAN : StartFailureTimer(j, ok)

\* The steps of the thread of job j that are not steps of a leaf.
ThreadStepButLeaf(j, maxq, maxr, pool) ==
    \/ BeginJob(j)
    \/ \E ok \in BOOLEAN : StartWorkflow(j, ok)
    \/ \E n \in 0..maxq : LeadCallsTool(j, n, maxr)
    \/ \E c \in BOOLEAN : FanIn(j, c)
    \/ \E cited \in SUBSET (pool \ BlockedUrls) : LeadReturns(j, cited)
    \/ \E closed \in BOOLEAN : LeadRaises(j, closed)
    \/ \E started \in BOOLEAN, closed \in BOOLEAN : AfterComplete(j, started, closed)
    \/ \E ok \in BOOLEAN : StartFailureTimer(j, ok)

\* The callers, the timers and the clock.
ServerStep(instants) ==
    \/ \E j \in JobIds : GetResearchReport(j)
    \/ ListResearchJobs
    \/ \E tm \in timers : TimerFires(tm)
    \/ \E t \in instants : Tick(t)

Next ==
    \/ \E tp \in ServerTopics, st \in BOOLEAN : CreateResearchReport(tp, st, MaxJobs)
    \/ ServerStep(ServerInstants)
    \/ \E j \in JobIds : ThreadStep(j, MaxQueries, 1, ServerUrls)

Spec == Init /\ [][Next]_vars

(***************************************************************************)
(* The specification of one job's coordinator in full: up to FanQueries   *)
(* queries per tool call, up to FanRounds tool calls, every URL.          *)
(***************************************************************************)
NextFan ==
    \/ \E tp \in ServerTopics, st \in BOOLEAN : CreateResearchReport(tp, st, 1)
    \/ ServerStep(ServerInstants)
    \/ ThreadStep(1, FanQueries, FanRounds, AllUrls)

SpecFan == Init /\ [][NextFan]_vars

(***************************************************************************)
(* The specification of one job's fan-out over more queries than the pool *)
(* has subagents: one tool call of up to PoolQueries queries.             *)
(***************************************************************************)
NextPool ==
    \/ \E tp \in ServerTopics, st \in BOOLEAN : CreateResearchReport(tp, st, 1)
    \/ ServerStep(ServerInstants)
    \/ ThreadStep(1, PoolQueries, 1, ServerUrls)

SpecPool == Init /\ [][NextPool]_vars

(***************************************************************************)
(* The specification of main.py's conduct_research, over every modelled   *)
(* response of the lead researcher to the decomposition prompt.           *)
(***************************************************************************)
InitMain ==
    /\ InitServer
    /\ main \in {MainStart(r) : r \in Responses}
    /\ reply = None
    /\ cite = NoCite
    /\ norm = NoNorm
    /\ tracker = NoTracker
    /\ listing = NoListing
    /\ fetch = NoFetch
    /\ search = NoSearch
    /\ cache = NoCache

NextMain ==
    \/ MainGenerate
    \/ MainLeadRaises
    \/ \E i \in DOMAIN main.tasks, ok \in BOOLEAN : MainSearch(i, ok)
    \/ \E i \in DOMAIN main.tasks, ok \in BOOLEAN : MainAgent(i, ok)
    \/ \E ok \in BOOLEAN : MainSynthesize(ok)

SpecMain == InitMain /\ [][NextMain]_vars

(***************************************************************************)
(* The specification of the citation processor, over every modelled text. *)
(***************************************************************************)
InitCite ==
    /\ InitServer
    /\ main = MainIdle
    /\ reply = None
    /\ cite \in {[text |-> t, out |-> None, again |-> None] : t \in Texts \ {NoCite.text}}
    /\ norm = NoNorm
    /\ tracker = NoTracker
    /\ listing = NoListing
    /\ fetch = NoFetch
    /\ search = NoSearch
    /\ cache = NoCache

NextCite == Deduplicate \/ DeduplicateAgain

SpecCite == InitCite /\ [][NextCite]_vars

(***************************************************************************)
(* The specification of normalize_url, over every modelled string.         *)
(***************************************************************************)
InitUrl ==
    /\ InitServer
    /\ main = MainIdle
    /\ reply = None
    /\ cite = NoCite
    /\ norm \in {[NoNorm EXCEPT !.url = u] : u \in UrlStrings}
    /\ tracker = NoTracker
    /\ listing = NoListing
    /\ fetch = NoFetch
    /\ search = NoSearch
    /\ cache = NoCache

NextUrl ==
    \/ NormalizeOnce
    \/ NormalizeTwice
    \/ \E v \in Variants(norm.url) : NormalizeOther(v)

SpecUrl == InitUrl /\ [][NextUrl]_vars

(***************************************************************************)
(* The specification of the source tracker: URLs are added one by one and  *)
(* by lists, in any order, and the queries are called in between.          *)
(***************************************************************************)
NextTracker ==
    \/ \E u \in TrackerUrlSet : AddUrl(u)
    \/ \E us \in UNION {[1..n -> TrackerUrlSet] : n \in 0..MaxAdded} : AddUrls(us)
    \/ CallGetAllSources
    \/ \E text \in TrackerTexts : CallGetAdditionalSources(text)
    \/ \E text \in TrackerTexts : CallGetSourceStatistics(text)

SpecTracker == Init /\ [][NextTracker]_vars

(***************************************************************************)
(* The server specification with a fair scheduler: a thread that can take  *)
(* a step eventually takes one. threading.Thread(...).start() hands the    *)
(* thread to the scheduler of the operating system, and every call the     *)
(* thread makes returns or raises.                                         *)
(***************************************************************************)
FairSpec ==
    /\ Spec
    /\ \A j \in JobIds : WF_vars(ThreadStep(j, MaxQueries, 1, ServerUrls))

(***************************************************************************)
(* The specification of one job and the callers that poll it, for its id   *)
(* and for an id that was never issued.                                    *)
(***************************************************************************)
NextRead ==
    \/ \E tp \in ServerTopics, st \in BOOLEAN : CreateResearchReport(tp, st, 1)
    \/ ServerStep(ServerInstants)
    \/ \E j \in JobIds : GetResearchReportReply(j)
    \/ ThreadStep(1, MaxQueries, 1, ServerUrls)

SpecRead == Init /\ [][NextRead]_vars

(***************************************************************************)
(* The specification of one job with its timers, over every instant: the   *)
(* thread is scheduled, the clock advances, and a started timer whose      *)
(* delay has elapsed fires. Callers call when they like, or never.         *)
(***************************************************************************)
NextTimers ==
    \/ \E tp \in ServerTopics, st \in BOOLEAN : CreateResearchReport(tp, st, 1)
    \/ ServerStep(Instants)
    \/ ThreadStep(1, MaxQueries, 1, ServerUrls)

SpecTimers ==
    /\ Init /\ [][NextTimers]_vars
    /\ WF_vars(ThreadStep(1, MaxQueries, 1, ServerUrls))
    /\ WF_vars(\E tm \in timers : TimerFires(tm))
    /\ WF_vars(\E t \in Instants : Tick(t))

(***************************************************************************)
(* The specification of a listing that runs while jobs are created, their  *)
(* threads finish and their cleanup timers fire.                           *)
(***************************************************************************)
\* The tools are coroutines of one event loop and list_research_jobs has no
\* await, so no other tool runs during a listing; the timers and the
\* background threads do.
NextList ==
    \/ /\ listing.pc \in {"idle", "done"}
       /\ \E tp \in ServerTopics, st \in BOOLEAN :
              CreateResearchReport(tp, st, MaxJobs)
    \/ \E tm \in timers : TimerFires(tm)
    \/ \E t \in ServerInstants : Tick(t)
    \/ \E j \in JobIds : ThreadStepButLeaf(j, 0, 1, {})
    \/ ListBegins
    \/ SweepNext
    \/ SweepDel
    \/ ListNext

SpecList == Init /\ [][NextList]_vars

(***************************************************************************)
(* The specification of one fetch_web_content call on every list of URLs.  *)
(***************************************************************************)
InitFetch ==
    /\ InitServer
    /\ main = MainIdle
    /\ reply = None
    /\ cite = NoCite
    /\ norm = NoNorm
    /\ tracker = NoTracker
    /\ listing = NoListing
    /\ fetch \in FetchCalls
    /\ search = NoSearch
    /\ cache = NoCache

NextFetch ==
    \E n \in 0..MaxUrlsPerCall : \E outcome \in [1..n -> FetchOutcomes] :
        CallFetchWebContent(outcome)

SpecFetch == InitFetch /\ [][NextFetch]_vars

(***************************************************************************)
(* The specification of the searches of two jobs on one cache directory.   *)
(***************************************************************************)
NextSearch ==
    \/ \E c \in Callers : \E a \in SearchArgs(c), has_key \in BOOLEAN :
           WebSearchBegins(c, a[1], a[2], has_key)
    \/ \E c \in Callers, resp \in ApiResponses : Request(c, resp)
    \/ \E c \in Callers : SetWritesFile(c)
    \/ \E c \in Callers : SetLoadsMetadata(c)
    \/ \E c \in Callers : SetSavesMetadata(c)
    \/ \E t \in CacheInstants : Tick(t)

SpecSearch == Init /\ [][NextSearch]_vars

(***************************************************************************)
(* The coordinator specification with a fair scheduler and leaves that may *)
(* take forever: every step of the thread that can be taken eventually is, *)
(* except the return of subagent(prompt), which may never come.            *)
(***************************************************************************)
SlowLeafSpec ==
    /\ SpecFan
    /\ WF_vars(ThreadStepButLeaf(1, FanQueries, FanRounds, AllUrls))

(***************************************************************************)
(* Properties of the job store and the background thread.                  *)
(***************************************************************************)
\* C1: a job enters the store Pending, and its status changes only along
\* Pending -> InProgress, InProgress -> Completed and InProgress -> Failed.
StatusMovesOnlyForward ==
    [][/\ \A j \in (DOMAIN jobs') \ (DOMAIN jobs) : jobs'[j].status = PENDING
       /\ \A j \in (DOMAIN jobs) \cap (DOMAIN jobs') :
            \/ jobs'[j].status = jobs[j].status
            \/ <<jobs[j].status, jobs'[j].status>> \in
                   {<<PENDING, IN_PROGRESS>>, <<IN_PROGRESS, COMPLETED>>,
                    <<IN_PROGRESS, FAILED>>}]_vars

\* C2: once a job is Completed or Failed, its status, result and error stay
\* as they are for as long as the job is in the store.
TerminalJobNeverChanges ==
    [][\A j \in (DOMAIN jobs) \cap (DOMAIN jobs') :
          jobs[j].status \in {COMPLETED, FAILED} =>
              /\ jobs'[j].status = jobs[j].status
              /\ jobs'[j].result = jobs[j].result
              /\ jobs'[j].error = jobs[j].error]_vars

\* C3, as stated: a job whose thread was started eventually is in the store
\* with status Completed or Failed.
StartedJobEnds ==
    \A j \in JobIds :
        (pc[j] = "start") ~>
            (j \in DOMAIN jobs /\ jobs[j].status \in {COMPLETED, FAILED})

\* C3, amended: a job whose thread was started eventually is Completed or
\* Failed, or its record has been reclaimed from the store before that.
StartedJobEndsOrIsReclaimed ==
    \A j \in JobIds :
        (pc[j] = "start") ~>
            (j \notin DOMAIN jobs \/ jobs[j].status \in {COMPLETED, FAILED})

\* C3: a job run to its end: Completed with its result, its thread over.
JobRunToCompletion ==
    \E j \in DOMAIN jobs :
        /\ pc[j] = "done"
        /\ jobs[j].status = COMPLETED
        /\ jobs[j].result # None

\* C4: a Completed job has a result and no error, a Failed job an error and
\* no result, a Pending or InProgress job neither.
ResultAndErrorFollowStatus ==
    \A j \in DOMAIN jobs :
        /\ jobs[j].status = COMPLETED =>
               jobs[j].result # None /\ jobs[j].error = None
        /\ jobs[j].status = FAILED =>
               jobs[j].error # None /\ jobs[j].result = None
        /\ jobs[j].status \in {PENDING, IN_PROGRESS} =>
               jobs[j].result = None /\ jobs[j].error = None

\* C14: a timer removes a job no sooner than 3600 s after its Completed
\* write or 600 s after its Failed write, and a terminal job whose thread
\* is over is eventually removed (its timers, if any, being due at an
\* instant the clock reaches).
TerminalJobIsRemovedAfterItsDelay ==
    /\ [][\A j \in (DOMAIN jobs) \ (DOMAIN jobs') :
            timers' # timers =>
                /\ jobs[j].status \in {COMPLETED, FAILED}
                /\ now - jobs[j].completed_at[1] >=
                       IF jobs[j].status = COMPLETED THEN SuccessDelay
                                                     ELSE FailureDelay]_vars
    /\ \A j \in JobIds :
            (/\ j \in DOMAIN jobs
             /\ jobs[j].status \in {COMPLETED, FAILED}
             /\ pc[j] \in {"done", "died"}
             /\ \A tm \in timers : tm.job = j => tm.due <= SweepAge + 1)
                ~> (j \notin DOMAIN jobs)

\* C15: a sweep removes exactly the jobs created more than SweepAge seconds
\* ago, of any status, and leaves the other records as they are; and every
\* job in the store is eventually reclaimed.
SweepReclaimsEveryOldJob ==
    /\ [][(DOMAIN jobs' # DOMAIN jobs /\ DOMAIN jobs' \subseteq DOMAIN jobs
             /\ timers' = timers) =>
            /\ (DOMAIN jobs) \ (DOMAIN jobs') =
                   {j \in DOMAIN jobs : jobs[j].created_at < now - SweepAge}
            /\ \A j \in DOMAIN jobs' : jobs'[j] = jobs[j]]_vars
    /\ \A j \in JobIds : (j \in DOMAIN jobs) ~> (j \notin DOMAIN jobs)

\* C16: a get_research_report call changes no job record, nor the set of
\* stored ids, nor anything else of the server, and its reply is not found
\* exactly for an id that is not in the store, else the job's status.
ReadsChangeNothing ==
    [][reply' # reply =>
          /\ serverVars' = serverVars
          /\ reply'[1].kind = IF reply'[1].id \in DOMAIN jobs
                              THEN jobs[reply'[1].id].status
                              ELSE "not_found"]_vars

\* C16: a caller was told not found for the id of a job that was reclaimed.
ReclaimedJobNotFound ==
    /\ reply # None
    /\ reply[1].kind = "not_found"
    /\ reply[1].id <= issued
    /\ reply[1].id \notin DOMAIN jobs

\* C18: a progress update of a running job with total > 0 and completed > 0
\* stores the ETA (elapsed since started_at / completed) * (total -
\* completed); an update with total = 0 or completed = 0 stores none.
ProgressUpdateStoresEta ==
    [][\A j \in (DOMAIN jobs) \cap (DOMAIN jobs') :
          (jobs'[j].progress # jobs[j].progress
             /\ jobs'[j].status = IN_PROGRESS) =>
              IF jobs'[j].progress.subtopics_total > 0
                    /\ jobs'[j].progress.subtopics_completed > 0
              THEN /\ jobs[j].started_at # None
                   /\ jobs'[j].progress.estimated_remaining =
                          Some(Eta(jobs[j].started_at[1], now,
                                   jobs'[j].progress.subtopics_total,
                                   jobs'[j].progress.subtopics_completed))
              ELSE jobs'[j].progress.estimated_remaining =
                       jobs[j].progress.estimated_remaining]_vars

\* C33: a job that is in progress, completed or failed has a started_at,
\* a pending job has none, and a started_at that is set never changes.
StartedAtFollowsStatus ==
    /\ [](\A j \in DOMAIN jobs :
             /\ jobs[j].status \in {IN_PROGRESS, COMPLETED, FAILED}
                    => jobs[j].started_at # None
             /\ jobs[j].status = PENDING => jobs[j].started_at = None)
    /\ [][\A j \in DOMAIN jobs \cap DOMAIN jobs' :
             jobs[j].started_at # None
                 => jobs'[j].started_at = jobs[j].started_at]_vars

\* C34: a job record that has been removed, by its cleanup timer or by the
\* sweep of list_research_jobs, is never put back: an id that was issued and
\* is missing from the store is still missing after every step, whatever the
\* job's thread writes afterwards.
RemovedJobStaysRemoved ==
    [][\A j \in 1..issued : j \notin DOMAIN jobs => j \notin DOMAIN jobs']_vars

\* The thread of a removed job has written its COMPLETED status and has not
\* started the cleanup timer yet: the record was removed by the sweep while
\* the thread was running.
RemovedWhileThreadRuns ==
    \E j \in 1..issued :
        /\ j \notin DOMAIN jobs
        /\ pc[j] = "timer"
        /\ \A tm \in timers : tm.job # j

\* C35: removing a job's record while its thread runs leaves the research as
\* it was: a leaf whose subagent returned a report contributes that report,
\* and the research_completed callback does not raise into the tool call.
ReclaimKeepsOutcome ==
    [][\A j \in JobIds :
           /\ LeafReturns(j) => results'[j][Len(results'[j])].ok
           /\ (pc[j] = "gathered" /\ pc'[j] = "lead")
                  => ~CallbackRaises(jobs, j, "research_completed")]_vars

\* C36: list_research_jobs never returns an error, and when it returns its
\* listing every job that is in the store and is not older than 24 hours
\* has a line in it, whatever the timers and the threads do meanwhile.
ListingNeverFails ==
    /\ [](listing.out # None => listing.out[1].kind # "error")
    /\ [][(listing.pc = "list" /\ listing'.pc = "done"
                                /\ listing'.out[1].kind = "jobs")
             => \A j \in DOMAIN jobs :
                    jobs[j].created_at >= now - SweepAge
                        => \E i \in 1..Len(listing'.out[1].jobs) :
                               listing'.out[1].jobs[i].id = j]_vars

(***************************************************************************)
(* Properties of the coordinator and its fan-out.                          *)
(***************************************************************************)
\* C5: while leaves run the coordinator waits; it goes on with exactly one
\* result per dispatched query, in query order, a raising leaf having left
\* a failure result for its own query; a result, once collected, is not
\* altered by the leaves that finish after it.
FanOutGathersEveryLeaf ==
    /\ [](\A j \in JobIds :
            /\ pc[j] = "leaf" => Len(results[j]) < queries[j] /\ handed[j] = None
            /\ pc[j] = "gathered" => Len(results[j]) = queries[j]
            /\ handed[j] # None => Len(results[j]) = queries[j]
            /\ \A i \in 1..Len(results[j]) : results[j][i].q = i)
    /\ [][\A j \in JobIds :
            \/ results'[j] = <<>>
            \/ results'[j] = results[j]
            \/ /\ Len(results'[j]) = Len(results[j]) + 1
               /\ SubSeq(results'[j], 1, Len(results[j])) = results[j]
               /\ pc[j] = "leaf"]_vars

\* C5: a fan-out over FanQueries queries is gathered, with a leaf that
\* raised and a leaf that returned its report.
GatheredWithFailedLeaf ==
    \E j \in JobIds :
        /\ pc[j] = "gathered"
        /\ queries[j] = FanQueries
        /\ \E i \in 1..Len(results[j]) : ~results[j][i].ok
        /\ \E i \in 1..Len(results[j]) : results[j][i].ok

\* C6: a job whose only fan-out lost leaves still completes, and the sources
\* of its results are URLs fetched by the leaves that succeeded.
FailedLeafContributesNoSource ==
    \A j \in DOMAIN jobs :
        (pc[j] = "timer" /\ rounds[j] = 1) =>
            /\ jobs[j].status = COMPLETED
            /\ jobs[j].full_results[1].all_sources_used \subseteq
                   UNION {results[j][i].fetched :
                             i \in {k \in 1..Len(results[j]) : results[j][k].ok}}

EveryReportIsHandedOn ==
    \A j \in DOMAIN jobs :
        handed[j] # None => handed[j][1] = 1..queries[j]

\* C10: leaves are dispatched only for a decomposition of 2 to 5 queries.
LeavesOnlyForValidDecomposition ==
    \A j \in JobIds :
        (pc[j] = "leaf" \/ results[j] # <<>>) => queries[j] \in 2..5

WorkersRunOneLeafAtATime ==
    \A j \in JobIds :
        /\ \A i \in 1..Len(results[j]) :
               results[j][i].worker = (i - 1) % NumSubagents
        /\ Cardinality(InFlight(j)) <= NumSubagents
        /\ \A a \in InFlight(j), b \in InFlight(j) :
               GetSubagent(a) = GetSubagent(b) => a = b

\* C12: a fan-out over more queries than subagents is gathered; the leaf
\* after the last subagent's ran on the first subagent again.
PoolWrappedAround ==
    \E j \in JobIds :
        /\ pc[j] = "gathered"
        /\ Len(results[j]) > NumSubagents
        /\ results[j][NumSubagents + 1].worker = 0

\* C13: in a fan-out over two or more queries a second leaf starts while
\* the first is in progress, however long the first takes.
SlowLeafDelaysNoSibling ==
    \A j \in JobIds :
        (pc[j] = "leaf" /\ queries[j] >= 2 /\ Len(results[j]) = 0) ~>
            (Len(results[j]) >= 1)

\* C17: the completed count of a job's progress never exceeds its total,
\* through every fan-out round of the job.
CompletedNeverExceedsTotal ==
    \A j \in DOMAIN jobs :
        jobs[j].progress.subtopics_completed <= jobs[j].progress.subtopics_total

\* C17: in the last fan-out round of a job some leaves are reported
\* completed and others are still to come.
LaterRoundPartlyCompleted ==
    \E j \in DOMAIN jobs :
        /\ rounds[j] = FanRounds
        /\ pc[j] = "leaf"
        /\ jobs[j].progress.subtopics_completed >= 1
        /\ jobs[j].progress.subtopics_completed < jobs[j].progress.subtopics_total

\* C19: a step of the thread of job a changes no record but a's, and the
\* sources of a's results are exactly the URLs that a's own leaves fetched.
JobsShareNoState ==
    /\ [][\A a \in JobIds :
            (pc'[a] # pc[a] \/ tracked'[a] # tracked[a]
                \/ results'[a] # results[a] \/ handed'[a] # handed[a]) =>
                \A b \in JobIds \ {a} :
                    /\ b \in DOMAIN jobs <=> b \in DOMAIN jobs'
                    /\ b \in DOMAIN jobs => jobs'[b] = jobs[b]]_vars
    /\ [](\A a \in DOMAIN jobs :
            pc[a] = "timer" =>
                jobs[a].full_results[1].all_sources_used =
                    UNION {results[a][i].fetched : i \in 1..Len(results[a])})

\* C19: job a completed with no source after a leaf of its own, while the
\* leaves of job b, running at the same time, have fetched a URL.
TwoJobsWithOwnSources ==
    \E a \in DOMAIN jobs, b \in DOMAIN jobs :
        /\ a # b
        /\ pc[a] = "timer"
        /\ Len(results[a]) >= 1
        /\ jobs[a].full_results[1].all_sources_used = {}
        /\ pc[b] \in {"leaf", "gathered", "lead"}
        /\ tracked[b] # {}

(***************************************************************************)
(* Properties of the citation processor.                                   *)
(***************************************************************************)
\* The parsed entries of the text at hand, and the index of the first of
\* them whose URL normalizes to that of u.
ParsedEntries ==
    IF cite.text.sources = None THEN <<>> ELSE ExtractCitations(cite.text.sources[1])
FirstSeen(u) ==
    CHOOSE k \in 1..Len(ParsedEntries) :
        /\ NormalizeUrl(ParsedEntries[k].url) = NormalizeUrl(u)
        /\ \A m \in 1..(k - 1) :
              NormalizeUrl(ParsedEntries[m].url) # NormalizeUrl(u)

\* C20: once deduplicate_citation_urls has returned for a text with parsed
\* entries, the sources section has exactly one citation line per distinct
\* normalized URL of the entries and no two lines share a normalized URL;
\* the labels are 1..n in the order in which the URLs first appear; each
\* line carries the display name, title and URL of the first entry with its
\* URL; final_count is n and deduplicated_count is the number of parsed
\* entries less n.
SourcesSectionIsDeduplicated ==
    (cite.out # None /\ ParsedEntries # <<>>) =>
        LET out == cite.out[1]
            lines == out.updated_text.sources[1]
            n == Cardinality({NormalizeUrl(ParsedEntries[k].url) :
                                 k \in 1..Len(ParsedEntries)})
        IN  /\ out.updated_text.sources # None
            /\ Len(lines) = n
            /\ {NormalizeUrl(lines[i].url) : i \in 1..n}
                   = {NormalizeUrl(ParsedEntries[k].url) : k \in 1..Len(ParsedEntries)}
            /\ \A i, k \in 1..n :
                  NormalizeUrl(lines[i].url) = NormalizeUrl(lines[k].url) => i = k
            /\ \A i \in 1..n :
                  /\ lines[i].ok
                  /\ lines[i].old_num = i
                  /\ lines[i].site_name = ParsedEntries[FirstSeen(lines[i].url)].site_name
                  /\ lines[i].title = ParsedEntries[FirstSeen(lines[i].url)].title
                  /\ lines[i].url = ParsedEntries[FirstSeen(lines[i].url)].url
            /\ \A i, k \in 1..n :
                  i < k => FirstSeen(lines[i].url) < FirstSeen(lines[k].url)
            /\ out.final_count = n
            /\ out.deduplicated_count = Len(ParsedEntries) - n

\* The old labels of the parsed entries, whether no two entries share one,
\* and the entry with a given old label.
OldLabels == {ParsedEntries[k].old_num : k \in 1..Len(ParsedEntries)}
OldLabelsDistinct ==
    \A k, m \in 1..Len(ParsedEntries) :
        ParsedEntries[k].old_num = ParsedEntries[m].old_num => k = m
EntryOf(label) ==
    ParsedEntries[CHOOSE k \in 1..Len(ParsedEntries) : ParsedEntries[k].old_num = label]

\* C21: when the old labels are any distinct numbers and the call has
\* returned, every in-text reference to an old label is rewritten to the
\* label of the new line with the normalized URL of its entry, so that it
\* denotes the URL it denoted before, and a new label appears in the body as
\* often as the references to the old labels of its URL did.
ReferencesKeepTheirUrl ==
    (/\ cite.out # None
     /\ ~Raised(cite.out[1])
     /\ ParsedEntries # <<>>
     /\ OldLabelsDistinct
     /\ \A i \in 1..Len(cite.text.body) : cite.text.body[i] \in OldLabels) =>
        LET old == cite.text.body
            new == cite.out[1].updated_text.body
            lines == cite.out[1].updated_text.sources[1]
        IN  /\ Len(new) = Len(old)
            /\ \A i \in 1..Len(old) :
                  /\ new[i] \in 1..Len(lines)
                  /\ NormalizeUrl(lines[new[i]].url) = NormalizeUrl(EntryOf(old[i]).url)
            /\ \A g \in 1..Len(lines) :
                  Cardinality({i \in 1..Len(new) : new[i] = g})
                      = Cardinality({i \in 1..Len(old) :
                            NormalizeUrl(EntryOf(old[i]).url) = NormalizeUrl(lines[g].url)})

\* The lines of the returned text's sources section that carry a label.
EntriesLabelled(label) ==
    LET lines == cite.out[1].updated_text.sources[1] IN
    {k \in 1..Len(lines) : lines[k].ok /\ lines[k].old_num = label}

\* C22: once the call has returned for a text with a sources section, every
\* reference [k] of the returned text has exactly one entry with label k in
\* its sources section, also when the section has malformed lines or the
\* body cites a label with no entry.
EveryReferenceHasOneEntry ==
    (/\ cite.out # None
     /\ ~Raised(cite.out[1])
     /\ cite.text.sources # None) =>
        \A i \in 1..Len(cite.out[1].updated_text.body) :
            Cardinality(EntriesLabelled(cite.out[1].updated_text.body[i])) = 1

\* C23: once the call has returned for a text with parsed entries, a
\* reference to a label that no parsed entry carries is as it was and has
\* no entry in the returned sources section; a section with malformed lines
\* does not make the call fail.
AbsentReferenceGainsNoSource ==
    (cite.out # None /\ ParsedEntries # <<>>) =>
        /\ (\E k \in 1..Len(cite.text.sources[1]) : ~cite.text.sources[1][k].ok)
               => ~Raised(cite.out[1])
        /\ ~Raised(cite.out[1]) =>
               \A i \in 1..Len(cite.text.body) :
                   cite.text.body[i] \notin OldLabels =>
                       /\ cite.out[1].updated_text.body[i] = cite.text.body[i]
                       /\ EntriesLabelled(cite.text.body[i]) = {}

\* C24: a second call on the text the first call returned returns that
\* text, a deduplicated_count of 0 and the final_count of the first call.
DeduplicationIsIdempotent ==
    (cite.out # None /\ ~Raised(cite.out[1]) /\ cite.again # None) =>
        cite.again[1] = DeduplicationResult(cite.out[1].updated_text, 0,
                                            cite.out[1].final_count)

\* C25: for a text without sources section, or with a section in which no
\* line is a citation, the call returns the text as it was with both counts
\* 0, and does not raise.
NoCitationLeavesTextUnchanged ==
    (cite.out # None /\ ParsedEntries = <<>>) =>
        /\ ~Raised(cite.out[1])
        /\ cite.out[1] = DeduplicationResult(cite.text, 0, 0)

\* The call has returned for a text whose section has malformed lines only
\* and whose body has references, and for a text without section.
ReturnedForMalformedSection ==
    /\ cite.out # None
    /\ cite.text.sources # None
    /\ Len(cite.text.sources[1]) = 2
    /\ \A k \in 1..2 : ~cite.text.sources[1][k].ok
    /\ Len(cite.text.body) = 2
    /\ cite.out[1].updated_text = cite.text

\* C26: normalize_url returns for every string, also for one that is no
\* URL and for the empty string, and normalizing its result again returns
\* that result.
NormalizeUrlIsIdempotent ==
    norm.again # None => norm.again = norm.out

\* Two strings differ only by a trailing slash, by the case of scheme or
\* host, by the query or by the fragment; and their paths differ.
DifferOnlyInIgnoredParts(u, v) ==
    /\ u.host = v.host
    /\ u.path = v.path
    /\ u.pathUpper = v.pathUpper
    /\ RStrip(u.tail, "/") = RStrip(v.tail, "/")
PathsDiffer(u, v) ==
    \/ u.path # v.path
    \/ u.pathUpper # v.pathUpper
    \/ RStrip(u.tail, "/") # RStrip(v.tail, "/")

\* C27: two URLs that differ only by a trailing slash, by the case of scheme
\* or host, by the query or by the fragment normalize equal, and two URLs
\* whose paths differ normalize unequal.
NormalizeUrlEquatesVariantsOnly ==
    (norm.other # None /\ norm.url.host = "a") =>
        /\ DifferOnlyInIgnoredParts(norm.url, norm.other[1].url)
               => norm.other[1].out = norm.out[1]
        /\ PathsDiffer(norm.url, norm.other[1].url)
               => norm.other[1].out # norm.out[1]

(***************************************************************************)
(* Properties of the source tracker.                                       *)
(***************************************************************************)
\* C28: the tracked set is the union of the URLs passed to add_url and
\* add_urls, whatever their order and repetitions; no call takes a URL out
\* of it; adding a URL that is in it leaves it as it is; and
\* get_all_sources returns its URLs, each once, in sorted order.
TrackedSetOnlyGrows ==
    /\ [](/\ tracker.tracked_urls = tracker.passed
          /\ (tracker.out # None /\ tracker.out[1].op = "all") =>
                LET all == tracker.out[1].value IN
                /\ {all[i] : i \in 1..Len(all)} = tracker.tracked_urls
                /\ Len(all) = Cardinality(tracker.tracked_urls)
                /\ all = Sorted(tracker.tracked_urls))
    /\ [][/\ tracker.tracked_urls \subseteq tracker'.tracked_urls
          /\ \A u \in tracker.tracked_urls :
                AddUrl(u) => tracker'.tracked_urls = tracker.tracked_urls]_vars

\* Three URLs were added and get_all_sources has returned them.
ReturnedThreeSources ==
    /\ tracker.out # None
    /\ tracker.out[1].op = "all"
    /\ Len(tracker.out[1].value) = 3

\* The URLs written in the sources section of a text.
UrlsWritten(text) ==
    IF text.sources = None THEN {}
    ELSE {text.sources[1][i].url : i \in 1..Len(text.sources[1])}

\* C29: get_additional_sources(text) returns exactly the tracked URLs whose
\* normalized form is the normalized form of no URL of the text's sources
\* section; a tracked URL that differs from a cited one only by a trailing
\* slash, case, query or fragment is not among them; and for a text without
\* sources section every tracked URL is.
AdditionalAreTheUncited ==
    (tracker.out # None /\ tracker.out[1].op = "additional") =>
        LET text == tracker.out[1].text
            additional == {tracker.out[1].value[i] :
                              i \in 1..Len(tracker.out[1].value)}
        IN  /\ additional =
                   {u \in tracker.tracked_urls :
                       \A c \in UrlsWritten(text) : NormalizeUrl(u) # NormalizeUrl(c)}
            /\ \A u \in tracker.tracked_urls : \A c \in UrlsWritten(text) :
                   DifferOnlyInIgnoredParts(u, c) => u \notin additional
            /\ text.sources = None => additional = tracker.tracked_urls

\* C30: get_source_statistics(text) returns counts with cited + additional
\* = total and 0 <= cited, and a citation_rate of cited / total for a total
\* above 0 and of 0 for a total of 0, which lies between 0 and 1.
StatisticsAddUp ==
    (tracker.out # None /\ tracker.out[1].op = "statistics") =>
        LET st == tracker.out[1].value IN
        /\ st.cited_sources + st.additional_sources = st.total_sources
        /\ st.total_sources = Cardinality(tracker.tracked_urls)
        /\ 0 <= st.cited_sources
        /\ st.total_sources > 0 =>
               st.citation_rate = Rate(st.cited_sources, st.total_sources)
        /\ st.total_sources = 0 => st.citation_rate = ZeroRate
        /\ 0 <= st.citation_rate.num
        /\ st.citation_rate.num <= st.citation_rate.den

\* Statistics were returned for a tracker of which the text cites a part.
StatisticsOfPartlyCited ==
    /\ tracker.out # None
    /\ tracker.out[1].op = "statistics"
    /\ tracker.out[1].value.total_sources = 3
    /\ tracker.out[1].value.cited_sources = 2
    /\ tracker.out[1].value.additional_sources = 1

\* C31: in the result of every Completed job, all_sources_used has at least
\* as many URLs as the sources section of the returned synthesis cites.
SourcesUsedCoverCited ==
    \A j \in DOMAIN jobs :
        (jobs[j].status = COMPLETED /\ jobs[j].full_results # None) =>
            Cardinality(jobs[j].full_results[1].all_sources_used)
                >= Cardinality(jobs[j].full_results[1].master_synthesis.cited)

\* C37: within a fan-out round the completed count of the job's progress
\* never decreases, and after each subtopic_completed event it is the number
\* of leaf tasks that have ended so far, failed ones included.
CompletedCountsEndedLeaves ==
    [][\A j \in DOMAIN jobs \cap DOMAIN jobs' :
           /\ pc[j] \in {"leaf", "gathered"}
                  => jobs'[j].progress.subtopics_completed
                         >= jobs[j].progress.subtopics_completed
           /\ (/\ pc[j] = "leaf"
               /\ Len(results'[j]) = Len(results[j]) + 1
               /\ results'[j][Len(results'[j])].ok)
                  => jobs'[j].progress.subtopics_completed = Len(results'[j])]_vars

\* C37: the first leaf of a round failed and reported nothing, the second
\* one reported its completion, and a third one is still to come.
ReportedAfterFailedLeaf ==
    \E j \in DOMAIN jobs :
        /\ pc[j] = "leaf"
        /\ Len(results[j]) = 2
        /\ ~results[j][1].ok
        /\ results[j][2].ok
        /\ jobs[j].progress.subtopics_completed = 2

\* The number of times x occurs in seq.
Occurrences(seq, x) == Cardinality({i \in 1..Len(seq) : seq[i] = x})

\* C38: a call of fetch_web_content returns one result for each of its
\* first 5 URLs and none for the others, passes no blocked URL to the
\* fetcher, returns a page for every URL whose fetch gave one whatever the
\* other fetches did, and adds to the tracked set exactly the URLs of its
\* results with success = true: no blocked URL and no URL whose fetches all
\* failed.
TracksOnlySuccessfulFetches ==
    fetch.out # None =>
        LET res == fetch.out[1]
            first == Prefix(fetch.urls, MaxUrlsPerCall)
            added == fetch.tracked_urls \ fetch.before
        IN  /\ Len(res) = Len(first)
            /\ \A u \in AllUrls :
                   Occurrences([i \in 1..Len(res) |-> res[i].url], u)
                       = Occurrences(first, u)
            /\ \A i \in 1..Len(fetch.passed) : ~IsUrlBlocked(fetch.passed[i])
            /\ \A i \in 1..Len(fetch.passed) :
                   fetch.outcome[i] = "page" =>
                       \E k \in 1..Len(res) :
                           res[k].url = fetch.passed[i] /\ res[k].success
            /\ fetch.tracked_urls = fetch.before \cup SuccessUrls(res)
            /\ \A u \in added : ~IsUrlBlocked(u)
            /\ \A u \in AllUrls :
                   (\A k \in 1..Len(res) : res[k].url = u => ~res[k].success)
                       => u \notin added

\* C38: a call with more than 5 URLs, a blocked one among the first 5, one
\* fetch that raised, one that returned an error and one that succeeded and
\* whose URL is new to the tracked set.
FetchedMixedBatch ==
    /\ fetch.out # None
    /\ Len(fetch.urls) > MaxUrlsPerCall
    /\ \E i \in 1..MaxUrlsPerCall : IsUrlBlocked(fetch.urls[i])
    /\ \E i, k, l \in 1..Len(fetch.passed) :
           /\ fetch.outcome[i] = "exception"
           /\ fetch.outcome[k] = "error_response"
           /\ fetch.outcome[l] = "page"
           /\ fetch.passed[l] \notin fetch.before

(***************************************************************************)
(* Properties of the search call and its cache.                            *)
(***************************************************************************)
\* The steps a running call of web_search has left at most.
StepsLeft(call) ==
    CASE call.pc = "request" -> (MaxRetries - call.attempt) + 4
      [] call.pc = "set_file" -> 3
      [] call.pc = "set_load" -> 2
      [] call.pc = "set_save" -> 1
      [] OTHER -> 0

Spellings(q) ==
    {Query(q.words, u, p) : u \in BOOLEAN, p \in BOOLEAN}
CachedResultsStayUntilExpiry ==
    \A c \in Callers :
        (search[c].pc = "done" /\ search[c].results # None) =>
            LET key == GenerateCacheKey(search[c].query, search[c].count)
                cached_at == search[c].metadata[key].cached_at
            IN  \A q \in Spellings(search[c].query) :
                    LET got == CacheGet(cache, q, search[c].count, now) IN
                    IF now - cached_at <= CacheTtl
                    THEN got.value = search[c].results
                    ELSE /\ got.value = None
                         /\ key \notin DOMAIN got.cache.files
                         /\ key \notin DOMAIN got.cache.metadata

(***************************************************************************)
(* Properties of main.py's decomposition.                                  *)
(***************************************************************************)
\* C9: the answer of the lead is accepted exactly when its array is JSON, of
\* 2 to 5 items, all of them non-empty strings; an accepted list is the
\* subtopics as written, and a rejection's error carries the response.
DecompositionAcceptedIffValid ==
    (main.pc \in {"research", "done", "failed"}
       /\ (main.error # None => main.error[1].kind # "agent_error")) =>
        LET out == main.response[Len(main.response)]
            valid == /\ main.response # <<>>
                     /\ out.syntax = "ok"
                     /\ Len(out.items) \in 2..5
                     /\ \A i \in 1..Len(out.items) :
                            out.items[i].str /\ out.items[i].val # ""
        IN  /\ valid <=> main.pc # "failed"
            /\ main.pc # "failed" =>
                   main.subtopics = [i \in 1..Len(out.items) |-> out.items[i].val]
            /\ main.pc = "failed" =>
                   main.error[1].response = Some(main.response)
====
